---- MODULE Spec2Model ----
(***************************************************************************)
(* Model of the wind-forecast provider engine (providers/mod.rs, noaa.rs,  *)
(* zezo.rs, stamp.rs): the Status inventory, the bootstrap load, the       *)
(* download loop, the refresh loop, the prune step and the temporal        *)
(* lookup.  Instants are whole minutes since an arbitrary epoch that lies  *)
(* on a 6-hour boundary.                                                   *)
(***************************************************************************)
EXTENDS Integers, Sequences, FiniteSets, TLC

VARIABLES
  now,        \* the wall clock (Utc::now()), in minutes
  gribs,      \* file names present in gribs_dir
  jsons,      \* file names present in the json Storage (jsons_dir)
  forecasts,  \* Status.forecasts : BTreeMap<ForecastTime, Vec<Stamp>>
  last,       \* Status.last : Option<Stamp>, <<>> is None, <<s>> is Some(s)
  progress,   \* Status.progress : u8
  status_current_ref_time, \* Status.current_ref_time : RefTime
  maxreg,     \* history: greatest (ref_time, forecast_hour) handed to set_last
  dl,         \* the task running load, init and the download loop (start);
              \* at is the cycle download_at was called for and tried tells
              \* that download_grib has been called since; fresh tells that
              \* Status and gribs_dir were empty at that call; err is the
              \* error download_grib returned when the call broke off
  rf,         \* the task running the refresh loop (start_refresh)
  build,      \* "release" (integer overflow wraps) or "debug" (it panics)
  query,      \* the instant given to find_winds, <<>> before any lookup
  found       \* the result of the last find_winds, <<>> before any lookup

vars == <<now, gribs, jsons, forecasts, last, progress,
          status_current_ref_time, maxreg, dl, rf,
          build, query, found>>

-----------------------------------------------------------------------------
(* Bounds of the model *)

\* the clock stops advancing at this instant
MaxNow == 750
\* upstream publishes forecast hours 6, 6+step, ... strictly below this hour
MaxPublished == 13
\* a forecast list is never grown beyond this length
MaxLen == 3
\* passes of the download loop
MaxPasses == 2
\* rounds of the refresh loop
MaxRounds == 2
\* the clock of a call of current_ref_time starts at an instant up to this one
MaxClock == 1500
\* the clock advances by at most this much between two reads of one call
MaxDrift == 1
\* the second part of a file name given to try_from has at most this many bytes
MaxHourText == 5
\* a byte stream given to from_reader holds at most this many messages
MaxMessages == 2
\* the widths, in bits, of the values of a simple-packed payload
MaxBits == 9
\* the number of points announced by section 5
MaxPoints == 4
\* the length of a simple-packed payload, in octets
MaxOctets == 5
\* the groups of a complex-packed payload
MaxGroups == 2
\* the values of one group
MaxGroupLength == 2
\* the rows and the columns of a grid, and the values given to build_grid
MaxLat == 2
MaxLon == 2
MaxData == 5

-----------------------------------------------------------------------------
(* Program constants *)

max_forecast_hour == 384
step == 3

-----------------------------------------------------------------------------
(* stamp.rs *)

Hours(h) == h * 60

U16(x) == x % 65536

U8(x) == x % 256

from_now(t, n) == t - n

RefTimeNew(t) == (t \div Hours(6)) * Hours(6)

from_ref_time(ref_time, h) == ref_time + Hours(h)

forecast_hour(s) == U16((s.forecast_time - s.ref_time) \div 60)

\* "YYYYMMDDHH.fHHH": the date field is the ref_time, the hour field the
\* forecast hour
file_name(s) == [date |-> s.ref_time, hour |-> forecast_hour(s)]

\* TryFrom<&String> for Stamp
StampFromName(f) ==
  [ref_time |-> f.date, forecast_time |-> f.date + Hours(f.hour), wind |-> FALSE]

\* a first part that is not a date, as in "README.f006"
NoDate == 0 - 1

\* a second part of fewer than four bytes, as in "1970010100.f6"
ShortHour == 0 - 1

\* what try_from does with a name of two parts: the date is parsed first and
\* its error returned by `?`; then hour[1..4] is sliced, which panics on a
\* second part of fewer than four bytes
ParseResult(f) ==
  IF f.date = NoDate THEN "FilenameError"
  ELSE IF f.hour = ShortHour THEN "panic"
  ELSE "Ok"

\* From<(&RefTime, ForecastTime)> for Stamp
StampFrom(ref_time, forecast_time) ==
  [ref_time |-> ref_time, forecast_time |-> forecast_time, wind |-> FALSE]

-----------------------------------------------------------------------------
(* noaa.rs : cycle timing *)

next_update_time(n) == RefTimeNew(n) + Hours(3) + 30

\* Noaa::current_ref_time reads the clock three times: RefTime::now(), then
\* Utc::now(), then RefTime::now() inside next_update_time()
current_ref_time_reads(n1, n2, n3) ==
  IF n2 < next_update_time(n3) THEN RefTimeNew(n1) - Hours(6) ELSE RefTimeNew(n1)

\* the three reads falling on one instant of the model's clock
current_ref_time(n) == current_ref_time_reads(n, n, n)

-----------------------------------------------------------------------------
(* The Status and the two stores as one value, so that the operations of    *)
(* WindsSpec compose.                                                       *)

World ==
  [forecasts |-> forecasts, last |-> last, progress |-> progress,
   current_ref_time |-> status_current_ref_time,
   maxreg |-> maxreg, gribs |-> gribs, jsons |-> jsons]

Names(stamps) == { file_name(stamps[i]) : i \in 1..Len(stamps) }

contains_key(fc, forecast_time) == forecast_time \in DOMAIN fc

add_forecast(w, forecast) ==
  LET ft == forecast.forecast_time
      files == IF ft \in DOMAIN w.forecasts THEN w.forecasts[ft] ELSE <<>>
  IN [w EXCEPT !.forecasts =
        [k \in DOMAIN w.forecasts \cup {ft} |->
           IF k = ft THEN Append(files, forecast) ELSE w.forecasts[k]]]

\* a removal that deletes the files but leaves the emptied key in the map
remove_forecast_keeping_key(w, forecast_time) ==
  IF forecast_time \in DOMAIN w.forecasts
  THEN [w EXCEPT
          !.forecasts = [@ EXCEPT ![forecast_time] = <<>>],
          !.gribs = @ \ Names(w.forecasts[forecast_time]),
          !.jsons = @ \ Names(w.forecasts[forecast_time])]
  ELSE w

\* the callback given to remove_forecast by on_stamp_downloaded: the grib
\* file and the Storage object of every removed stamp are deleted
remove_forecast(w, forecast_time) ==
  IF forecast_time \in DOMAIN w.forecasts
  THEN [w EXCEPT
          !.forecasts = [k \in DOMAIN w.forecasts \ {forecast_time} |-> w.forecasts[k]],
          !.gribs = @ \ Names(w.forecasts[forecast_time]),
          !.jsons = @ \ Names(w.forecasts[forecast_time])]
  ELSE w

\* a guard that lets every call through
set_last_unguarded(l, ref_time) == TRUE

set_last_guard(l, ref_time) == l = <<>> \/ l[1].ref_time <= ref_time

\* the percentage rounded up
progress_rounded_up(forecast_time, max_forecast_time) ==
  U8((U16(100 * forecast_time) + max_forecast_time - 1) \div max_forecast_time)

progress_of(forecast_time, max_forecast_time) ==
  U8(U16(100 * forecast_time) \div max_forecast_time)

LexGreater(a, b) ==
  a.ref_time > b.ref_time \/ (a.ref_time = b.ref_time /\ a.hour > b.hour)

Observe(m, ref_time, h) ==
  LET o == [ref_time |-> ref_time, hour |-> h]
  IN IF m = <<>> \/ LexGreater(o, m[1]) THEN <<o>> ELSE m

set_last(w, ref_time, forecast_time, max_forecast_time) ==
  LET w1 == [w EXCEPT !.maxreg = Observe(@, ref_time, forecast_time)]
  IN IF set_last_guard(w.last, ref_time)
     THEN [w1 EXCEPT
             !.last = <<StampFrom(ref_time, ref_time + Hours(forecast_time))>>,
             !.progress = progress_of(forecast_time, max_forecast_time)]
     ELSE w1

\* a merge rule without the test on the forecast hour
merge_applies_any_hour(w, delete, stamp) ==
  delete /\ contains_key(w.forecasts, stamp.forecast_time)

\* the merge rule of on_stamp_downloaded
merge_applies(w, delete, stamp) ==
  delete /\ contains_key(w.forecasts, stamp.forecast_time) /\ forecast_hour(stamp) > 6

\* json::load(jsons_dir.join(file_name)) succeeds
json_loads(w, stamp) == file_name(stamp) \in w.jsons

-----------------------------------------------------------------------------
(* Listing a directory and sorting by (forecast_time, ref_time) *)

StampLess(a, b) ==
  \/ a.forecast_time < b.forecast_time
  \/ (a.forecast_time = b.forecast_time /\ a.ref_time < b.ref_time)

RECURSIVE SortStamps(_)
SortStamps(S) ==
  IF S = {} THEN <<>>
  ELSE LET m == CHOOSE x \in S : \A y \in S \ {x} : StampLess(x, y)
       IN <<m>> \o SortStamps(S \ {m})

ListStamps(dir) == SortStamps({ StampFromName(f) : f \in dir })

-----------------------------------------------------------------------------
(* Provider::clean.  BTreeMap::drain_filter(..).next() yields the first     *)
(* entry older than now-3h, whose files the loop body deletes; dropping    *)
(* the DrainFilter then removes every other matching entry from the map    *)
(* without handing it to the loop body.                                     *)

Expired(fc, n) == { k \in DOMAIN fc : from_now(k, n) < 0 - Hours(3) }

MinOf(S) == CHOOSE x \in S : \A y \in S : x <= y

clean(w, n) ==
  LET old == Expired(w.forecasts, n)
  IN IF old = {} THEN w
     ELSE [w EXCEPT
             !.forecasts = [k \in DOMAIN w.forecasts \ old |-> w.forecasts[k]],
             !.gribs = @ \ Names(w.forecasts[MinOf(old)]),
             !.jsons = @ \ Names(w.forecasts[MinOf(old)])]

\* an entry passing as soon as one of its stamps has a file
SomeFileExists(stamps, dir) == \E i \in 1..Len(stamps) : file_name(stamps[i]) \in dir

\* the first block of Provider::refresh
AllFilesExist(stamps, dir) == \A i \in 1..Len(stamps) : file_name(stamps[i]) \in dir

retain(w) ==
  [w EXCEPT !.forecasts =
     [k \in { x \in DOMAIN w.forecasts : AllFilesExist(w.forecasts[x], w.jsons) }
        |-> w.forecasts[k]]]

-----------------------------------------------------------------------------
(* State *)

Apply(w) ==
  /\ forecasts' = w.forecasts
  /\ last' = w.last
  /\ progress' = w.progress
  /\ status_current_ref_time' = w.current_ref_time
  /\ maxreg' = w.maxreg
  /\ gribs' = w.gribs
  /\ jsons' = w.jsons

status == <<forecasts, last, progress, status_current_ref_time, maxreg>>

Name(date, hour) == [date |-> date, hour |-> hour]

\* the files the stores may hold when the provider starts
InitFiles == { Name(0, 6), Name(0, 15), Name(Hours(6), 0) }

StartInstants == { Hours(9) + 30 }

\* the values of the `init` configuration entry, <<>> is None
InitConfigs == { <<>>, <<Hours(6)>>, <<Hours(12)>>,
                 <<0 - Hours(max_forecast_hour)>> }

\* the clock is observed at the multiples of 3 h and 30 minutes after each
NextInstant(n) == IF n % Hours(3) = 0 THEN n + 30 ELSE n + Hours(3) - (n % Hours(3))

Init ==
  /\ now \in StartInstants
  /\ gribs \in SUBSET InitFiles
  /\ jsons = gribs
  /\ forecasts = <<>>
  /\ last = <<>>
  /\ progress = 0
  /\ status_current_ref_time = current_ref_time(now)
  /\ maxreg = <<>>
  /\ dl = [pc |-> "load", ctx |-> "load", delete |-> FALSE, load |-> FALSE,
           stamps |-> <<>>, ref_time |-> 0, h |-> 0, first |-> FALSE,
           new |-> FALSE, stamp |-> <<>>, merged |-> FALSE, passes |-> 0,
   at |-> 0, tried |-> FALSE, fresh |-> FALSE, err |-> "None",
   listed |-> <<>>]
  /\ rf = [pc |-> "unstarted", stamps |-> <<>>, stamp |-> <<>>, rounds |-> 0,
          dropped |-> {}]
  /\ build = "release"
  /\ query = <<>>
  /\ found = <<>>

env == <<now, build, query, found>>

-----------------------------------------------------------------------------
(* start_provider: Provider::load, Provider::init, then the loops *)

\* load(true, false) in start_provider, load(false, true) in load_grib_test.
\* start_provider spawns Provider::start and load_grib_test spawns
\* Provider::start_refresh; both loops of the trait are run here over the one
\* Status they share behind its lock.
Load ==
  /\ dl.pc = "load"
  /\ \E delete \in BOOLEAN :
       dl' = [dl EXCEPT !.pc = "walk", !.ctx = "load", !.delete = delete,
                        !.load = ~delete, !.stamps = ListStamps(gribs),
                        !.listed = ListStamps(gribs)]
  /\ UNCHANGED <<gribs, jsons, status, rf, env>>

\* a test of the current stamp where load tests the next one
StaleItself == dl.stamps # <<>> /\ from_now(dl.stamps[1].forecast_time, now) < 0

\* stamps.peek() is Some(next_stamp) and next_stamp.from_now() < 0
Stale == Len(dl.stamps) >= 2 /\ from_now(dl.stamps[2].forecast_time, now) < 0

\* the next stamp is already in the past: the current one is deleted
LoadStale ==
  /\ dl.pc = "walk" /\ dl.stamps # <<>> /\ Stale
  /\ gribs' = gribs \ {file_name(Head(dl.stamps))}
  /\ jsons' = jsons \ {file_name(Head(dl.stamps))}
  /\ dl' = IF file_name(Head(dl.stamps)) \in jsons
           THEN [dl EXCEPT !.stamps = Tail(@)]
           ELSE [dl EXCEPT !.pc = "failed"]
  /\ UNCHANGED <<status, rf, env>>

LoadKeep ==
  /\ dl.pc = "walk" /\ dl.stamps # <<>> /\ ~Stale
  /\ dl' = [dl EXCEPT !.pc = "check", !.stamp = <<Head(dl.stamps)>>,
                      !.stamps = Tail(@)]
  /\ UNCHANGED <<gribs, jsons, status, rf, env>>

LoadDone ==
  /\ dl.pc = "walk" /\ dl.stamps = <<>>
  /\ dl' = [dl EXCEPT !.pc = "init", !.listed = <<>>]
  /\ UNCHANGED <<gribs, jsons, status, rf, env>>

\* download_at: download_first(ref_time) = download_next(true, ref_time)
download_at(ctx, ref_time) ==
  [dl EXCEPT !.pc = "loop", !.ctx = ctx, !.delete = TRUE, !.load = FALSE,
             !.ref_time = ref_time, !.h = 6, !.first = TRUE, !.new = FALSE,
             !.stamp = <<>>, !.at = ref_time, !.tried = FALSE, !.err = "None",
             !.fresh = (forecasts = <<>> /\ last = <<>> /\ gribs = {})]

Spawned == [rf EXCEPT !.pc = "retain"]

\* Provider::init(config.init): the value is handed to download_at as it is
ProviderInitFrom(configs) ==
  /\ dl.pc = "init"
  /\ \E c \in configs :
       IF c = <<>>
       THEN /\ dl' = [dl EXCEPT !.pc = "clean", !.ctx = "pass"]
            /\ rf' = Spawned
       ELSE /\ dl' = download_at("init", c[1])
            /\ rf' = rf
  /\ UNCHANGED <<gribs, jsons, status, env>>

ProviderInit == ProviderInitFrom(InitConfigs)

-----------------------------------------------------------------------------
(* The download loop: Provider::start, Noaa::download_next *)

DlClean ==
  /\ dl.pc = "clean"
  /\ dl.passes < MaxPasses
  /\ Apply(clean(World, now))
  /\ dl' = [dl EXCEPT !.pc = "download", !.passes = @ + 1]
  /\ UNCHANGED <<rf, env>>

DlDownload ==
  /\ dl.pc = "download"
  /\ dl' = download_at("pass", current_ref_time(now))
  /\ UNCHANGED <<gribs, jsons, status, rf, env>>

DlForecastTime == from_ref_time(dl.ref_time, dl.h)

DlStamp == StampFrom(dl.ref_time, DlForecastTime)

\* a skip rule that lets through the hour lying exactly step hours back
SkippedStrictlyOlder == from_now(DlForecastTime, now) < 0 - Hours(step)

\* forecast_time.from_now() <= self.step().hours().neg()
Skipped == from_now(DlForecastTime, now) <= 0 - Hours(step)

InLoop == dl.pc = "loop" /\ dl.h <= max_forecast_hour

\* download_next returns: the loops are spawned after init, the download
\* loop sleeps after a pass
Returned == [dl EXCEPT !.pc = "clean", !.ctx = "pass"]

DlReturn ==
  /\ dl.pc = "loop" /\ dl.h > max_forecast_hour
  /\ dl' = Returned
  /\ rf' = IF dl.ctx = "init" THEN Spawned ELSE rf
  /\ UNCHANGED <<gribs, jsons, status, env>>

DlSkip ==
  /\ InLoop /\ Skipped
  /\ dl' = [dl EXCEPT !.h = @ + step]
  /\ UNCHANGED <<gribs, jsons, status, rf, env>>

DlExists ==
  /\ InLoop /\ ~Skipped
  /\ file_name(DlStamp) \in gribs
  /\ dl' = [dl EXCEPT !.h = @ + step, !.first = FALSE]
  /\ UNCHANGED <<gribs, jsons, status, rf, env>>

Missing == InLoop /\ ~Skipped /\ file_name(DlStamp) \notin gribs

\* upstream holds the cycles of 00, 06, 12 and 18 h only
Published(ref_time, h) == ref_time % Hours(6) = 0 /\ h < MaxPublished

\* download_grib answers 200: the json is saved, then the grib copied
DlDownloaded ==
  /\ Missing
  /\ Published(dl.ref_time, dl.h)
  /\ jsons' = jsons \cup {file_name(DlStamp)}
  /\ gribs' = gribs \cup {file_name(DlStamp)}
  /\ dl' = [dl EXCEPT !.pc = "check", !.new = TRUE, !.stamp = <<DlStamp>>,
                      !.tried = TRUE]
  /\ UNCHANGED <<status, rf, env>>

\* a step back taken on any missing hour
DlRecurseAnyHour ==
  /\ Missing
  /\ dl' = [dl EXCEPT !.ref_time = @ - Hours(6), !.h = 6, !.first = FALSE,
                      !.new = FALSE, !.tried = TRUE]
  /\ UNCHANGED <<gribs, jsons, status, rf, env>>

\* 404 on the first attempted hour: download_next(false, ref_time - 6h)
DlRecurse ==
  /\ Missing
  /\ dl.first
  /\ dl' = [dl EXCEPT !.ref_time = @ - Hours(6), !.h = 6, !.first = FALSE,
                      !.new = FALSE, !.tried = TRUE]
  /\ UNCHANGED <<gribs, jsons, status, rf, env>>

\* 404 on a later hour, or any other error: break
DlBreak ==
  /\ Missing
  /\ \E e \in {"StampNotFoundError", "Error"} :
       /\ e = "Error" \/ ~dl.first
       /\ dl' = [Returned EXCEPT !.err = e]
  /\ rf' = IF dl.ctx = "init" THEN Spawned ELSE rf
  /\ UNCHANGED <<gribs, jsons, status, env>>

-----------------------------------------------------------------------------
(* Provider::on_stamp_downloaded(delete, load, stamp) as called by load and *)
(* by download_next, one step for each acquisition of the Status lock       *)

DlCheck ==
  /\ dl.pc = "check"
  /\ dl' = IF merge_applies(World, dl.delete, dl.stamp[1])
           THEN [dl EXCEPT !.pc = "remove", !.merged = TRUE]
           ELSE [dl EXCEPT !.pc = "set_last"]
  /\ UNCHANGED <<gribs, jsons, status, rf, env>>

DlRemove ==
  /\ dl.pc = "remove"
  /\ Apply(remove_forecast(World, dl.stamp[1].forecast_time))
  /\ dl' = [dl EXCEPT !.pc = "set_last"]
  /\ UNCHANGED <<rf, env>>

DlSetLast ==
  /\ dl.pc = "set_last"
  /\ Apply(set_last(World, dl.stamp[1].ref_time, forecast_hour(dl.stamp[1]),
                    max_forecast_hour))
  /\ dl' = [dl EXCEPT !.pc = IF dl.load THEN "json" ELSE "add"]
  /\ UNCHANGED <<rf, env>>

\* the caller goes on after on_stamp_downloaded returned Ok or Err
Resumed ==
  IF dl.ctx = "load"
  THEN [dl EXCEPT !.pc = "walk", !.stamp = <<>>, !.merged = FALSE]
  ELSE [dl EXCEPT !.pc = "loop", !.h = @ + step, !.first = FALSE, !.stamp = <<>>,
                  !.merged = FALSE]

\* stamp.wind = Some(json::load(..).await?)
DlJson ==
  /\ dl.pc = "json"
  /\ dl' = IF json_loads(World, dl.stamp[1])
           THEN [dl EXCEPT !.pc = "add", !.stamp = <<[dl.stamp[1] EXCEPT !.wind = TRUE]>>]
           ELSE Resumed
  /\ UNCHANGED <<gribs, jsons, status, rf, env>>

Room(stamp) ==
  stamp.forecast_time \in DOMAIN forecasts
    => Len(forecasts[stamp.forecast_time]) < MaxLen

DlAdd ==
  /\ dl.pc = "add"
  /\ Room(dl.stamp[1])
  /\ Apply(add_forecast(World, dl.stamp[1]))
  /\ dl' = Resumed
  /\ UNCHANGED <<rf, env>>

-----------------------------------------------------------------------------
(* The refresh loop: Provider::start_refresh, Provider::refresh *)

RfRetain ==
  /\ rf.pc = "retain"
  /\ rf.rounds < MaxRounds
  /\ Apply(retain(World))
  /\ rf' = [rf EXCEPT !.pc = "list", !.rounds = @ + 1,
                      !.dropped = DOMAIN forecasts \ DOMAIN retain(World).forecasts]
  /\ UNCHANGED <<dl, env>>

RfList ==
  /\ rf.pc = "list"
  /\ \A f \in gribs : ParseResult(f) = "Ok"
  /\ rf' = [rf EXCEPT !.pc = "next", !.stamps = ListStamps(gribs),
                      !.dropped = {}]
  /\ UNCHANGED <<gribs, jsons, status, dl, env>>

RfDone ==
  /\ rf.pc = "next" /\ rf.stamps = <<>>
  /\ rf' = [rf EXCEPT !.pc = "retain"]
  /\ UNCHANGED <<gribs, jsons, status, dl, env>>

\* a refresh that registers the stamps of unlisted forecast times only
refresh_registers_new_keys(fc, stamp) == ~contains_key(fc, stamp.forecast_time)

\* the two branches of the loop of Provider::refresh
refresh_registers(fc, stamp) ==
  ~contains_key(fc, stamp.forecast_time) \/ forecast_hour(stamp) = 0

RfNext ==
  /\ rf.pc = "next" /\ rf.stamps # <<>>
  /\ rf' = IF refresh_registers(forecasts, Head(rf.stamps))
           THEN [rf EXCEPT !.pc = "set_last", !.stamp = <<Head(rf.stamps)>>,
                           !.stamps = Tail(@)]
           ELSE [rf EXCEPT !.stamps = Tail(@)]
  /\ UNCHANGED <<gribs, jsons, status, dl, env>>

\* on_stamp_downloaded(delete = false, load = true, stamp): no merge
RfSetLast ==
  /\ rf.pc = "set_last"
  /\ Apply(set_last(World, rf.stamp[1].ref_time, forecast_hour(rf.stamp[1]),
                    max_forecast_hour))
  /\ rf' = [rf EXCEPT !.pc = "json"]
  /\ UNCHANGED <<dl, env>>

RfJson ==
  /\ rf.pc = "json"
  /\ rf' = IF json_loads(World, rf.stamp[1])
           THEN [rf EXCEPT !.pc = "add", !.stamp = <<[rf.stamp[1] EXCEPT !.wind = TRUE]>>]
           ELSE [rf EXCEPT !.pc = "next", !.stamp = <<>>]
  /\ UNCHANGED <<gribs, jsons, status, dl, env>>

RfAdd ==
  /\ rf.pc = "add"
  /\ Room(rf.stamp[1])
  /\ Apply(add_forecast(World, rf.stamp[1]))
  /\ rf' = [rf EXCEPT !.pc = "next", !.stamp = <<>>]
  /\ UNCHANGED <<dl, env>>

-----------------------------------------------------------------------------
(* The clock advances while the download loop sleeps between two passes *)

Tick ==
  /\ dl.pc = "clean"
  /\ NextInstant(now) <= MaxNow
  /\ now' = NextInstant(now)
  /\ UNCHANGED <<gribs, jsons, status, dl, rf, build, query, found>>

Next ==
  \/ Load
  \/ LoadStale
  \/ LoadKeep
  \/ LoadDone
  \/ ProviderInit
  \/ DlClean
  \/ DlDownload
  \/ DlReturn
  \/ DlSkip
  \/ DlExists
  \/ DlDownloaded
  \/ DlRecurse
  \/ DlBreak
  \/ DlCheck
  \/ DlRemove
  \/ DlSetLast
  \/ DlJson
  \/ DlAdd
  \/ RfRetain
  \/ RfList
  \/ RfDone
  \/ RfNext
  \/ RfSetLast
  \/ RfJson
  \/ RfAdd
  \/ Tick

Spec == Init /\ [][Next]_vars

-----------------------------------------------------------------------------
(* Properties of the Status under load, the download loop and the refresh  *)
(* loop                                                                     *)

StampsAt(fc, ft) == IF ft \in DOMAIN fc THEN fc[ft] ELSE <<>>

\* the task has taken a step of on_stamp_downloaded for its stamp
DlStep(pcs) == dl.pc \in pcs /\ dl' # dl
RfStep(pcs) == rf.pc \in pcs /\ rf' # rf

\* C1: whatever load, the download passes, the merge removals, clean and
\* the refresh rounds have done, no forecast_time key of Status.forecasts
\* maps to an empty list of stamps.
C1_NoEmptyList == \A k \in DOMAIN forecasts : forecasts[k] # <<>>

\* C1: a merge has just removed a key while other keys remain listed
C1_RemovedAmongOthers ==
  /\ dl.pc = "set_last" /\ dl.merged
  /\ dl.stamp[1].forecast_time \notin DOMAIN forecasts
  /\ DOMAIN forecasts # {}

\* C2: when on_stamp_downloaded(delete = true, _, s) took the merge branch
\* (the key of s was listed and s.forecast_hour() > 6), its insertion of s
\* leaves the list at that key exactly <<s>>.
C2_MergeLeavesOnlyNew ==
  [][DlStep({"add"}) /\ dl.merged
       => forecasts'[dl.stamp[1].forecast_time] = <<dl.stamp[1]>>]_vars

\* C3: under every interleaving of the two loops, the stamp a step inserts
\* into Status has its file in the Storage at the moment of the insertion.
C3_FileExistsAtInsertion ==
  [][\A k \in DOMAIN forecasts' :
       Len(forecasts'[k]) > Len(StampsAt(forecasts, k))
         => file_name(forecasts'[k][Len(forecasts'[k])]) \in jsons']_vars

\* C4: within every forecast_time key the stamps are listed in ascending
\* ref_time order.
C4_AscendingRefTime ==
  \A k \in DOMAIN forecasts :
    \A i, j \in 1..Len(forecasts[k]) :
      i < j => forecasts[k][i].ref_time <= forecasts[k][j].ref_time

C6_LastMonotone ==
  [][/\ last # <<>> => last' # <<>> /\ last'[1].ref_time >= last[1].ref_time
     /\ (DlStep({"set_last"}) /\ last # <<>>
           /\ dl.stamp[1].ref_time < last[1].ref_time)
        => last' = last /\ progress' = progress
     /\ (RfStep({"set_last"}) /\ last # <<>>
           /\ rf.stamp[1].ref_time < last[1].ref_time)
        => last' = last /\ progress' = progress]_vars

\* C6: set_last has been called for a stamp older than last
C6_OlderCallMade ==
  /\ dl.pc \in {"json", "add"} /\ last # <<>>
  /\ dl.stamp[1].ref_time < last[1].ref_time

\* C7: last is the stamp of the greatest (ref_time, forecast hour), in
\* lexicographic order, among all the stamps handed to set_last so far.
C7_LastIsLexMax ==
  last # <<>> =>
    /\ maxreg # <<>>
    /\ last[1].ref_time = maxreg[1].ref_time
    /\ forecast_hour(last[1]) = maxreg[1].hour

-----------------------------------------------------------------------------
(* WindsSpec::set_last over every forecast hour a file name can carry.     *)
(* load and refresh hand to set_last the hour parsed from the three digits *)
(* after ".f"; 100 * forecast_time is a u16 product, which wraps in a      *)
(* release build and panics in a debug build.                               *)

\* the hours of the file names found in the directory
NameHours == { 0, 6, 192, 384, 385, 400, 655, 656, 999 }

NameDates == { 0, Hours(6) }

Overflows(forecast_time) == 100 * forecast_time > 65535

Idle ==
  [pc |-> "idle", ctx |-> "load", delete |-> FALSE, load |-> FALSE,
   stamps |-> <<>>, ref_time |-> 0, h |-> 0, first |-> FALSE,
   new |-> FALSE, stamp |-> <<>>, merged |-> FALSE, passes |-> 0,
   at |-> 0, tried |-> FALSE, fresh |-> FALSE, err |-> "None",
   listed |-> <<>>]

InitSetLast ==
  /\ now = Hours(9) + 30
  /\ gribs = {}
  /\ jsons = {}
  /\ forecasts = <<>>
  /\ last = <<>>
  /\ progress = 0
  /\ status_current_ref_time = current_ref_time(now)
  /\ maxreg = <<>>
  /\ dl = Idle
  /\ rf = [pc |-> "unstarted", stamps |-> <<>>, stamp |-> <<>>, rounds |-> 0,
          dropped |-> {}]
  /\ build \in {"release", "debug"}
  /\ query = <<>>
  /\ found = <<>>

NameStamps == { StampFromName(Name(d, h)) : d \in NameDates, h \in NameHours }

\* "attempt to multiply with overflow"
Panics(stamp) ==
  /\ build = "debug"
  /\ set_last_guard(last, stamp.ref_time)
  /\ Overflows(forecast_hour(stamp))

\* set_last(stamp.ref_time, stamp.forecast_hour(), max_forecast_hour()) for
\* the stamp parsed from a file name
SetLastCall ==
  /\ dl.pc = "idle"
  /\ \E stamp \in { x \in NameStamps : ~Panics(x) } :
       Apply(set_last(World, stamp.ref_time, forecast_hour(stamp),
                      max_forecast_hour))
  /\ UNCHANGED <<dl, rf, env>>

SetLastPanic ==
  /\ dl.pc = "idle"
  /\ { x \in NameStamps : Panics(x) } # {}
  /\ dl' = [dl EXCEPT !.pc = "panicked"]
  /\ UNCHANGED <<gribs, jsons, status, rf, env>>

NextSetLast ==
  \/ SetLastCall
  \/ SetLastPanic

SpecSetLast == InitSetLast /\ [][NextSetLast]_vars

Saturated(x) == IF x > 100 THEN 100 ELSE x

\* C8: whenever last is set, progress is floor(100 * hour / max_forecast_hour)
\* of the hour of last, saturated to 0..100, for every hour a file name can
\* carry; the product 100 * hour neither overflows nor wraps.
C8_ProgressSaturated ==
  /\ dl.pc # "panicked"
  /\ last # <<>> =>
       progress = Saturated((100 * forecast_hour(last[1])) \div max_forecast_hour)

-----------------------------------------------------------------------------
(* JsonProvider::find_winds.  A payload is named by the file it is loaded  *)
(* from; the f64 quotient h / delta is kept as the pair of its operands,   *)
(* in seconds.                                                              *)

MaxOf(S) == CHOOSE x \in S : \A y \in S : x >= y

\* the keys collected from the greatest to the least
RECURSIVE KeysDescending(_)
KeysDescending(S) ==
  IF S = {} THEN <<>> ELSE <<MaxOf(S)>> \o KeysDescending(S \ {MaxOf(S)})

\* status.forecasts.keys().cloned().collect()
RECURSIVE KeysOf(_)
KeysOf(S) == IF S = {} THEN <<>> ELSE <<MinOf(S)>> \o KeysOf(S \ {MinOf(S)})

\* json::load_all: Some(payloads), or None when a file does not open
load_all(dir, stamps) ==
  IF AllFilesExist(stamps, dir)
  THEN <<[i \in 1..Len(stamps) |-> file_name(stamps[i])]>>
  ELSE <<>>

Seconds(minutes) == minutes * 60

\* the index of the first key greater than datetime, 0 when there is none
FirstAfter(keys, datetime) ==
  IF \E i \in 1..Len(keys) : keys[i] > datetime
  THEN MinOf({ i \in 1..Len(keys) : keys[i] > datetime })
  ELSE 0

find_h(keys, i, datetime) == Seconds(keys[i - 1] - datetime)

\* the interval taken from the later key to the earlier one
find_delta_forward(keys, i) == Seconds(keys[i] - keys[i - 1])

find_delta(keys, i) == Seconds(keys[i - 1] - keys[i])

Failed == [tag |-> "Err", before |-> <<>>, after |-> <<>>, num |-> 0, den |-> 1]

Panicked == [tag |-> "panic", before |-> <<>>, after |-> <<>>, num |-> 0, den |-> 1]

\* Ok((Some(before), None, 0.0)), the `?` on load_all returning the error
Single(w, key) ==
  LET before == load_all(w.jsons, w.forecasts[key])
  IN IF before = <<>> THEN Failed
     ELSE [tag |-> "Ok", before |-> before[1], after |-> <<>>, num |-> 0, den |-> 1]

\* Ok((Some(before), Some(after), h / delta))
Between(w, keys, i, datetime) ==
  LET before == load_all(w.jsons, w.forecasts[keys[i - 1]])
      after == load_all(w.jsons, w.forecasts[keys[i]])
  IN IF before = <<>> \/ after = <<>> THEN Failed
     ELSE [tag |-> "Ok", before |-> before[1], after |-> <<after[1]>>,
           num |-> find_h(keys, i, datetime), den |-> find_delta(keys, i)]

find_winds(w, datetime) ==
  LET keys == KeysOf(DOMAIN w.forecasts)
      i == FirstAfter(keys, datetime)
  IN IF keys = <<>> THEN Panicked
     ELSE IF keys[1] > datetime THEN Single(w, keys[1])
     ELSE IF i # 0 THEN Between(w, keys, i, datetime)
     ELSE Single(w, keys[Len(keys)])

\* the forecast times of the Status and the instants asked for
FindKeys == { 0, Hours(3), Hours(6) }

FindInstants == { 0 - Hours(1), 0, Hours(1), Hours(3), Hours(4), Hours(6), Hours(7) }

FindStamps(k, n) ==
  IF n = 1 THEN <<StampFrom(0 - Hours(6), k)>>
  ELSE <<StampFrom(0 - Hours(12), k), StampFrom(0 - Hours(6), k)>>

InitFind ==
  /\ now = Hours(9) + 30
  /\ \E K \in SUBSET FindKeys : \E two \in SUBSET K :
       forecasts = [k \in K |-> FindStamps(k, IF k \in two THEN 2 ELSE 1)]
  /\ \E gone \in SUBSET { file_name(StampFrom(0 - Hours(6), k)) : k \in FindKeys } :
       /\ Cardinality(gone) <= 1
       /\ jsons = { file_name(StampFrom(r, k)) :
                      r \in {0 - Hours(6), 0 - Hours(12)}, k \in FindKeys } \ gone
  /\ gribs = jsons
  /\ last = <<>>
  /\ progress = 0
  /\ status_current_ref_time = current_ref_time(now)
  /\ maxreg = <<>>
  /\ dl = Idle
  /\ rf = [pc |-> "unstarted", stamps |-> <<>>, stamp |-> <<>>, rounds |-> 0,
          dropped |-> {}]
  /\ build = "release"
  /\ query = <<>>
  /\ found = <<>>

FindWinds ==
  /\ \E datetime \in FindInstants :
       /\ query' = <<datetime>>
       /\ found' = <<find_winds(World, datetime)>>
  /\ UNCHANGED <<now, gribs, jsons, status, dl, rf, build>>

NextFind == FindWinds

SpecFind == InitFind /\ [][NextFind]_vars

\* adjacent keys of the Status
Adjacent(k1, k2) ==
  /\ k1 \in DOMAIN forecasts /\ k2 \in DOMAIN forecasts /\ k1 < k2
  /\ ~ \E k \in DOMAIN forecasts : k1 < k /\ k < k2

Payloads(k) == [i \in 1..Len(forecasts[k]) |-> file_name(forecasts[k][i])]

Loadable(k) == AllFilesExist(forecasts[k], jsons)

\* C9: for adjacent keys k1 < k2 whose payloads load and an instant t with
\* k1 < t < k2, the lookup returns the payloads of k1, the payloads of k2
\* and alpha = (t - k1) / (k2 - k1), which lies strictly between 0 and 1.
C9_Interpolates ==
  found # <<>> =>
    \A k1, k2 \in DOMAIN forecasts :
      (Adjacent(k1, k2) /\ k1 < query[1] /\ query[1] < k2
         /\ Loadable(k1) /\ Loadable(k2))
      => /\ found[1].tag = "Ok"
         /\ found[1].before = Payloads(k1)
         /\ found[1].after = <<Payloads(k2)>>
         /\ found[1].den # 0
         /\ found[1].num * (k2 - k1) = (query[1] - k1) * found[1].den
         /\ found[1].num * found[1].den > 0
         /\ found[1].num * found[1].den < found[1].den * found[1].den

\* C9: a lookup strictly between two adjacent keys, the earlier one
\* listing two stamps, has answered
C9_AnsweredBetween ==
  /\ found # <<>> /\ found[1].tag = "Ok"
  /\ \E k1, k2 \in DOMAIN forecasts :
       /\ Adjacent(k1, k2) /\ k1 < query[1] /\ query[1] < k2
       /\ Len(forecasts[k1]) = 2

\* C10: when the instant asked for is a key k of the Status, the lookup
\* returns the payloads of k, no "after" payloads and alpha = 0, whether or
\* not a later key exists.
C10_ExactKeyNoAfter ==
  (found # <<>> /\ query[1] \in DOMAIN forecasts /\ found[1].tag = "Ok")
    => /\ found[1].before = Payloads(query[1])
       /\ found[1].after = <<>>
       /\ found[1].num = 0

\* the lookup answered with the payloads of key k alone and alpha = 0
OnlyKey(k) ==
  /\ found[1].tag = "Ok"
  /\ found[1].before = Payloads(k)
  /\ found[1].after = <<>>
  /\ found[1].num = 0

\* C11: the lookup never extrapolates.  For an instant earlier than the
\* first key it returns the payloads of the first key, no "after" payloads
\* and alpha = 0; for an instant not earlier than the last key it returns
\* those of the last key, no "after" payloads and alpha = 0; so with a
\* single key k every instant gets (winds(k), None, 0).  Stated for keys
\* whose payloads load.
C11_NoExtrapolation ==
  (found # <<>> /\ DOMAIN forecasts # {}) =>
    LET first == MinOf(DOMAIN forecasts)
        final == MaxOf(DOMAIN forecasts)
    IN /\ (query[1] < first /\ Loadable(first)) => OnlyKey(first)
       /\ (query[1] >= final /\ Loadable(final)) => OnlyKey(final)

\* C11: a Status of at least two keys has been asked for an instant earlier
\* than its first key, the first key listing two stamps
C11_AskedBeforeFirst ==
  /\ found # <<>> /\ found[1].tag = "Ok"
  /\ Cardinality(DOMAIN forecasts) >= 2
  /\ query[1] < MinOf(DOMAIN forecasts)
  /\ Len(forecasts[MinOf(DOMAIN forecasts)]) = 2

-----------------------------------------------------------------------------
(* The steps of a download_at call: download_next and the                  *)
(* on_stamp_downloaded it awaits                                            *)

InCall == dl.ctx \in {"init", "pass"} /\ dl.pc \in {"loop", "check", "remove", "set_last", "json", "add"}

DownloadStep ==
  \/ DlReturn
  \/ DlSkip
  \/ DlExists
  \/ DlDownloaded
  \/ DlRecurse
  \/ DlBreak
  \/ DlCheck
  \/ DlRemove
  \/ DlSetLast
  \/ DlJson
  \/ DlAdd

-----------------------------------------------------------------------------
(* start_provider as it is written: load, init, then the download loop     *)
(* alone on the Status                                                      *)

NextStart ==
  \/ Load
  \/ LoadStale
  \/ LoadKeep
  \/ LoadDone
  \/ ProviderInit
  \/ DlClean
  \/ DlDownload
  \/ DlReturn
  \/ DlSkip
  \/ DlExists
  \/ DlDownloaded
  \/ DlRecurse
  \/ DlBreak
  \/ DlCheck
  \/ DlRemove
  \/ DlSetLast
  \/ DlJson
  \/ DlAdd
  \/ Tick

SpecStart == Init /\ [][NextStart]_vars

\* the same under a scheduler that keeps running the download task
SpecDownload == Init /\ [][NextStart]_vars /\ WF_vars(DownloadStep)

\* C12: download_at(T) moves to another cycle only from T to T - 6h, only
\* on a missing artifact and only while download_grib has not been called
\* before in the call; every cycle it works on is T or T - 6h; and the call
\* returns.
C12_OneStepBack ==
  /\ [][(InCall /\ dl'.pc # "clean" /\ dl'.ref_time # dl.ref_time)
          => /\ Missing /\ ~dl.tried
             /\ dl.ref_time = dl.at
             /\ dl'.ref_time = dl.at - Hours(6)]_vars
  /\ [](InCall => dl.ref_time \in {dl.at, dl.at - Hours(6)})
  /\ (InCall ~> dl.pc = "clean")

\* C12: the call has stepped back and downloaded an hour of T - 6h
C12_SteppedBack ==
  /\ InCall /\ dl.pc = "check"
  /\ dl.ref_time = dl.at - Hours(6)

\* the hours 6, 9, 12 of a cycle that download_next does not skip
CascadeHours(ref_time) ==
  { h \in {6, 9, 12} : ~(from_now(from_ref_time(ref_time, h), now) <= 0 - Hours(step)) }

\* Status lists exactly one stamp of the cycle for each of the hours
Holds(ref_time, hours) ==
  /\ DOMAIN forecasts = { from_ref_time(ref_time, h) : h \in hours }
  /\ \A h \in hours :
       forecasts[from_ref_time(ref_time, h)] =
         <<StampFrom(ref_time, from_ref_time(ref_time, h))>>

\* download_at(T), called on an empty Status and an empty gribs_dir, has
\* stepped back and gets 404 for hour 15 of T - 6h, after 200 for each hour
\* it asked for before
CascadeEnd ==
  /\ InCall /\ dl.pc = "loop" /\ dl.fresh
  /\ dl.ref_time = dl.at - Hours(6)
  /\ dl.h = 15 /\ Missing

C14_ErrorSkipsOneArtifact ==
  [][(InCall /\ dl.pc = "loop" /\ Missing /\ dl' # dl /\ dl'.err = "Error")
       => /\ dl'.pc = "loop"
          /\ dl'.ref_time = dl.ref_time
          /\ dl'.h = dl.h + step]_vars

\* the step sends a request for DlStamp: it is answered 200, 404 or an error
Requested ==
  /\ InCall /\ dl.pc = "loop"
  /\ \/ dl'.pc = "check"
     \/ dl'.pc = "loop" /\ dl'.ref_time # dl.ref_time
     \/ dl'.err # "None"

RequestHours == { 6 + i * step : i \in 0..((max_forecast_hour - 6) \div step) }

\* C15: a pass requests a stamp only when its file is not in the store, its
\* forecast_time is later than now - step hours and its hour is one of
\* 6, 6+step, ... up to max_forecast_hour; a file enters the store only by
\* such a request, so nothing is downloaded again while its file remains.
C15_RequestsOnlyMissing ==
  [][/\ Requested
        => /\ file_name(StampFrom(dl.ref_time, from_ref_time(dl.ref_time, dl.h)))
                \notin gribs
           /\ from_now(from_ref_time(dl.ref_time, dl.h), now) > 0 - Hours(step)
           /\ dl.h \in RequestHours
     /\ gribs' \subseteq gribs
          \cup { f \in { file_name(StampFrom(dl.ref_time,
                                             from_ref_time(dl.ref_time, dl.h))) } :
                   Requested /\ f \notin gribs }]_vars

\* a stamp was requested and downloaded after the hours before it had been
\* passed over, one as too old and one as already stored
C15_RequestedAfterSkips ==
  /\ InCall /\ dl.pc = "check"
  /\ \E h1, h2 \in RequestHours :
       /\ h1 < h2 /\ h2 < dl.h
       /\ from_now(from_ref_time(dl.ref_time, h1), now) <= 0 - Hours(step)
       /\ file_name(StampFrom(dl.ref_time, from_ref_time(dl.ref_time, h2))) \in gribs

-----------------------------------------------------------------------------
(* Provider::load *)

InLoad == dl.ctx = "load" /\ dl.pc \notin {"load", "init", "failed"}

\* C16: load removes a file only when delete is true and the stamp after the
\* current one in (forecast_time, ref_time) order lies in the past; with
\* delete false no file is removed.
C16_LoadDeletesOnlyOnDelete ==
  [][(InLoad /\ gribs' # gribs)
       => /\ dl.delete
          /\ dl.pc = "walk"
          /\ Len(dl.stamps) >= 2
          /\ from_now(dl.stamps[2].forecast_time, now) < 0]_vars

\* the files the store may hold when load is run on its own
LoadFiles == { Name(0, 6), Name(Hours(6), 0), Name(0, 9), Name(0, 15),
               Name(Hours(6), 9) }

InitLoad ==
  /\ now \in StartInstants
  /\ gribs \in SUBSET LoadFiles
  /\ jsons \in SUBSET gribs
  /\ forecasts = <<>>
  /\ last = <<>>
  /\ progress = 0
  /\ status_current_ref_time = current_ref_time(now)
  /\ maxreg = <<>>
  /\ dl = [Idle EXCEPT !.pc = "load"]
  /\ rf = [pc |-> "unstarted", stamps |-> <<>>, stamp |-> <<>>, rounds |-> 0,
          dropped |-> {}]
  /\ build = "release"
  /\ query = <<>>
  /\ found = <<>>

NextLoad ==
  \/ Load
  \/ LoadStale
  \/ LoadKeep
  \/ LoadDone
  \/ DlCheck
  \/ DlRemove
  \/ DlSetLast
  \/ DlJson
  \/ DlAdd

SpecLoad == InitLoad /\ [][NextLoad]_vars

\* the stamp is in the store dir and listed in the map fc
KeptIn(stamp, dir, fc) ==
  /\ file_name(stamp) \in dir
  /\ stamp.forecast_time \in DOMAIN fc
  /\ \E i \in 1..Len(fc[stamp.forecast_time]) :
       fc[stamp.forecast_time][i].ref_time = stamp.ref_time

\* the stamp is neither in the store dir nor in the map fc
DeletedIn(stamp, dir, fc) ==
  /\ file_name(stamp) \notin dir
  /\ stamp.forecast_time \in DOMAIN fc
       => \A i \in 1..Len(fc[stamp.forecast_time]) :
            fc[stamp.forecast_time][i].ref_time # stamp.ref_time

\* load(true, ..) returns
LoadReturns == InLoad /\ dl.delete /\ dl.pc = "walk" /\ dl.stamps = <<>>

StaleAt(l, i) == i < Len(l) /\ from_now(l[i + 1].forecast_time, now) < 0

MergedAt(l, i) ==
  \E j \in (i + 1)..Len(l) :
    l[j].forecast_time = l[i].forecast_time /\ forecast_hour(l[j]) > 6

\* C17: when load(true, ..) returns, a listed stamp is deleted and out of
\* Status exactly when its successor in (forecast_time, ref_time) order has a
\* forecast_time earlier than now, and is kept otherwise; the last listed
\* stamp is kept and at most one kept stamp lies before now.
C17_DeletedIffSuccessorPast ==
  [][(LoadReturns /\ dl'.pc = "init")
       => LET l == dl.listed
          IN /\ \A i \in 1..Len(l) :
                  IF StaleAt(l, i) THEN DeletedIn(l[i], gribs', forecasts')
                  ELSE KeptIn(l[i], gribs', forecasts')
             /\ l # <<>> => KeptIn(l[Len(l)], gribs', forecasts')
             /\ Cardinality({ i \in 1..Len(l) :
                    /\ KeptIn(l[i], gribs', forecasts')
                    /\ from_now(l[i].forecast_time, now) < 0 }) <= 1
     ]_vars

\* C17 with the merge rule: when load(true, ..) returns, a listed stamp is
\* deleted and out of Status exactly when its successor has a forecast_time
\* earlier than now or a later listed stamp has the same forecast_time and a
\* forecast hour above 6, and is kept otherwise; the last listed stamp is kept
\* and at most one kept stamp lies before now.
C17_DeletedIffStaleOrMerged ==
  [][(LoadReturns /\ dl'.pc = "init")
       => LET l == dl.listed
          IN /\ \A i \in 1..Len(l) :
                  IF StaleAt(l, i) \/ MergedAt(l, i)
                  THEN DeletedIn(l[i], gribs', forecasts')
                  ELSE KeptIn(l[i], gribs', forecasts')
             /\ l # <<>> => KeptIn(l[Len(l)], gribs', forecasts')
             /\ Cardinality({ i \in 1..Len(l) :
                    /\ KeptIn(l[i], gribs', forecasts')
                    /\ from_now(l[i].forecast_time, now) < 0 }) <= 1
     ]_vars

\* load(true, ..) has returned having deleted a stale stamp, merged another
\* away and kept one that lies before now
C17_StaleMergedAndKept ==
  /\ dl.pc = "init" /\ dl.delete
  /\ file_name(StampFrom(0, Hours(6))) \notin gribs
  /\ file_name(StampFrom(0, Hours(15))) \notin gribs
  /\ KeptIn(StampFrom(0, Hours(9)), gribs, forecasts)
  /\ KeptIn(StampFrom(Hours(6), Hours(15)), gribs, forecasts)

-----------------------------------------------------------------------------
(* Provider::clean *)

\* C18: clean removes from Status exactly the entries older than now - 3 h,
\* deletes the file of every stamp it removes, and leaves the other entries
\* and every other file as they were.
C18_CleanDeletesRemoved ==
  [][(dl.pc = "clean" /\ dl'.pc = "download")
       => LET old == { k \in DOMAIN forecasts : from_now(k, now) < 0 - Hours(3) }
              gone == UNION { Names(forecasts[k]) : k \in old }
          IN /\ DOMAIN forecasts' = DOMAIN forecasts \ old
             /\ \A k \in DOMAIN forecasts' : forecasts'[k] = forecasts[k]
             /\ gribs' = gribs \ gone
             /\ jsons' = jsons \ gone]_vars

-----------------------------------------------------------------------------
(* Provider::refresh *)

\* C19: the first step of refresh keeps, unchanged, exactly the entries all
\* of whose stamps have their file in the json store, and drops every entry
\* with a stamp whose file is missing.
C19_RetainsEntriesWithFiles ==
  [][(rf.pc = "retain" /\ rf'.pc = "list")
       => /\ DOMAIN forecasts' =
               { k \in DOMAIN forecasts :
                   \A i \in 1..Len(forecasts[k]) :
                     file_name(forecasts[k][i]) \in jsons }
          /\ \A k \in DOMAIN forecasts' : forecasts'[k] = forecasts[k]
          /\ UNCHANGED <<gribs, jsons, last, progress>>]_vars

\* refresh has just dropped an entry, one of whose files was missing
C19_EntryDropped ==
  /\ rf.pc = "list"
  /\ rf.dropped # {}
  /\ rf.dropped \cap DOMAIN forecasts = {}

\* C20: refresh hands a listed stamp to on_stamp_downloaded(false, true, ..)
\* exactly when its forecast_time is not a key of Status at that moment or
\* its forecast hour is 0, and Status is unchanged by any other stamp; the
\* call, once the json is loaded, appends the stamp to the list of its key.
C20_RegistersNewKeyOrHourZero ==
  /\ [][(rf.pc = "next" /\ rf.stamps # <<>> /\ rf' # rf)
          => /\ rf'.stamps = Tail(rf.stamps)
             /\ UNCHANGED <<forecasts, last, progress, gribs, jsons>>
             /\ IF \/ rf.stamps[1].forecast_time \notin DOMAIN forecasts
                   \/ forecast_hour(rf.stamps[1]) = 0
                THEN rf'.pc = "set_last" /\ rf'.stamp = <<rf.stamps[1]>>
                ELSE rf'.pc = "next" /\ rf'.stamp = <<>>]_vars
  /\ [][(rf.pc = "add" /\ rf' # rf)
          => /\ rf.stamp[1].forecast_time \in DOMAIN forecasts'
             /\ forecasts'[rf.stamp[1].forecast_time] =
                  (IF rf.stamp[1].forecast_time \in DOMAIN forecasts
                   THEN forecasts[rf.stamp[1].forecast_time] ELSE <<>>)
                  \o <<rf.stamp[1]>>]_vars

\* refresh has registered the hour-0 stamp of a cycle at a forecast_time that
\* was listed already
C20_HourZeroAppended ==
  \E k \in DOMAIN forecasts :
    /\ Len(forecasts[k]) >= 2
    /\ forecasts[k][Len(forecasts[k])].wind
    /\ forecast_hour(forecasts[k][Len(forecasts[k])]) = 0

-----------------------------------------------------------------------------
(* The two loops with files put into gribs_dir from outside the provider *)

\* names that do not parse as a stamp
Unparsable == { [date |-> NoDate, hour |-> 6], [date |-> 0, hour |-> ShortHour] }

\* a file appears in gribs_dir while the refresh loop sleeps; one such file
\* at most is ever there
PutFile ==
  /\ rf.pc = "retain"
  /\ gribs \cap Unparsable = {}
  /\ \E f \in Unparsable : gribs' = gribs \cup {f}
  /\ UNCHANGED <<jsons, status, dl, rf, env>>

\* stamps.push((&entry.path()).try_into()?) returns the error: the round is
\* over and start_refresh sleeps
RfListErr ==
  /\ rf.pc = "list"
  /\ \E f \in gribs : ParseResult(f) = "FilenameError"
  /\ rf' = [rf EXCEPT !.pc = "retain", !.dropped = {}]
  /\ UNCHANGED <<gribs, jsons, status, dl, env>>

\* try_into() panics: the task running start_refresh ends
RfListPanic ==
  /\ rf.pc = "list"
  /\ \E f \in gribs : ParseResult(f) = "panic"
  /\ rf' = [rf EXCEPT !.pc = "panicked", !.dropped = {}]
  /\ UNCHANGED <<gribs, jsons, status, dl, env>>

DownloadLoop ==
  \/ DlClean
  \/ DlDownload
  \/ DownloadStep

RefreshLoop ==
  \/ RfRetain
  \/ RfList
  \/ RfListErr
  \/ RfListPanic
  \/ RfDone
  \/ RfNext
  \/ RfSetLast
  \/ RfJson
  \/ RfAdd

NextLoops ==
  \/ Next
  \/ PutFile
  \/ RfListErr
  \/ RfListPanic

SpecLoops ==
  Init /\ [][NextLoops]_vars /\ WF_vars(DownloadLoop) /\ WF_vars(RefreshLoop)

\* C21: neither loop ever ends, and a loop that sleeps after an iteration,
\* failed or not, starts another one (while the model lets it count on).
C21_LoopsRunForever ==
  /\ [](dl.pc # "panicked" /\ rf.pc # "panicked")
  /\ ((dl.pc = "clean" /\ dl.passes < MaxPasses) ~> dl.pc = "download")
  /\ ((rf.pc = "retain" /\ rf.rounds < MaxRounds) ~> rf.pc = "list")

-----------------------------------------------------------------------------
(* A provider started half an hour before the next cycle becomes due *)

EarlyInstants == { Hours(9) }

InitEarly ==
  /\ now \in EarlyInstants
  /\ gribs \in SUBSET InitFiles
  /\ jsons = gribs
  /\ forecasts = <<>>
  /\ last = <<>>
  /\ progress = 0
  /\ status_current_ref_time = current_ref_time(now)
  /\ maxreg = <<>>
  /\ dl = [Idle EXCEPT !.pc = "load"]
  /\ rf = [pc |-> "unstarted", stamps |-> <<>>, stamp |-> <<>>, rounds |-> 0,
          dropped |-> {}]
  /\ build = "release"
  /\ query = <<>>
  /\ found = <<>>

SpecEarly == InitEarly /\ [][NextStart]_vars

\* C22: Status.current_ref_time is the current serviceable cycle when the
\* provider starts, and when a pass of download() returns it is the cycle
\* that pass computed.
C22_CurrentRefTimeFollows ==
  /\ [](dl.pc = "load" => status_current_ref_time = current_ref_time(now))
  /\ [][(InCall /\ dl.ctx = "pass" /\ dl'.pc = "clean")
          => status_current_ref_time' = dl.at]_vars

-----------------------------------------------------------------------------
(* Noaa::current_ref_time on its own: query holds the three instants read,  *)
(* found the cycle returned                                                 *)

InitCycle ==
  /\ now \in 0..MaxClock
  /\ gribs = {}
  /\ jsons = {}
  /\ forecasts = <<>>
  /\ last = <<>>
  /\ progress = 0
  /\ status_current_ref_time = 0
  /\ maxreg = <<>>
  /\ dl = Idle
  /\ rf = [pc |-> "unstarted", stamps |-> <<>>, stamp |-> <<>>, rounds |-> 0,
          dropped |-> {}]
  /\ build = "release"
  /\ query = <<>>
  /\ found = <<>>

CurrentRefTime ==
  /\ query = <<>>
  /\ \E d1, d2 \in 0..MaxDrift :
       /\ query' = <<now, now + d1, now + d1 + d2>>
       /\ found' = <<current_ref_time_reads(now, now + d1, now + d1 + d2)>>
       /\ now' = now + d1 + d2
  /\ UNCHANGED <<gribs, jsons, status, dl, rf, build>>

NextCycle == CurrentRefTime

SpecCycle == InitCycle /\ [][NextCycle]_vars

\* C23: the cycle returned lies on a 6-hour boundary and satisfies
\* t - 9h30m < B <= t - 3h30m for an instant t of the call, that is, B is the
\* latest boundary with B + 3h30m <= t.
C23_LatestDueCycle ==
  found # <<>> =>
    /\ found[1] % Hours(6) = 0
    /\ \E t \in query[1]..query[3] :
         /\ t - (Hours(9) + 30) < found[1]
         /\ found[1] <= t - (Hours(3) + 30)
         /\ \A b \in (0 - 4)..4 :
              Hours(6) * b + Hours(3) + 30 <= t => Hours(6) * b <= found[1]

-----------------------------------------------------------------------------
(* start_provider with any instant as the `init` configuration value *)

\* `init` is an Option<DateTime<Utc>> read from the configuration file
SeedConfigs == InitConfigs \cup { <<Hours(7)>> }

ProviderInitSeeded == ProviderInitFrom(SeedConfigs)

NextSeed ==
  \/ Load
  \/ LoadStale
  \/ LoadKeep
  \/ LoadDone
  \/ ProviderInitSeeded
  \/ DlClean
  \/ DlDownload
  \/ DlReturn
  \/ DlSkip
  \/ DlExists
  \/ DlDownloaded
  \/ DlRecurse
  \/ DlBreak
  \/ DlCheck
  \/ DlRemove
  \/ DlSetLast
  \/ DlJson
  \/ DlAdd
  \/ Tick

SpecSeed == Init /\ [][NextSeed]_vars

Aligned(ref_time) == ref_time % Hours(6) = 0

\* C24: every RefTime in use lies on a 6-hour boundary: the cycle a call of
\* download_at was given and the cycle it works on, the ref_time of last and
\* of every stamp listed in Status.
C24_RefTimesAligned ==
  /\ InCall => Aligned(dl.at) /\ Aligned(dl.ref_time)
  /\ last # <<>> => Aligned(last[1].ref_time)
  /\ \A k \in DOMAIN forecasts :
       \A i \in 1..Len(forecasts[k]) : Aligned(forecasts[k][i].ref_time)

-----------------------------------------------------------------------------
(* stamp.rs on the text of file names.  A text is a sequence of one-byte    *)
(* characters; query holds the text or the stamp given, found the result.   *)
(* Dates are those of the years 1970 and 1971, the epoch of the model being *)
(* 1970-01-01T00:00Z.                                                       *)

DigitChars == <<"0", "1", "2", "3", "4", "5", "6", "7", "8", "9">>

IsDigit(c) == \E i \in 1..10 : DigitChars[i] = c

DigitValue(c) == (CHOOSE i \in 1..10 : DigitChars[i] = c) - 1

AllDigits(t) == \A i \in 1..Len(t) : IsDigit(t[i])

\* the value of a text of digits
RECURSIVE Number(_)
Number(t) ==
  IF t = <<>> THEN 0
  ELSE 10 * Number(SubSeq(t, 1, Len(t) - 1)) + DigitValue(t[Len(t)])

\* the decimal digits of n
RECURSIVE Decimal(_)
Decimal(n) ==
  IF n < 10 THEN <<DigitChars[n + 1]>>
  ELSE Decimal(n \div 10) \o <<DigitChars[(n % 10) + 1]>>

\* {:0w}: padded with zeros up to w digits, never cut
RECURSIVE Padded(_, _)
Padded(t, w) == IF Len(t) >= w THEN t ELSE Padded(<<"0">> \o t, w)

\* filename.split('.')
RECURSIVE Split(_)
Split(t) ==
  IF \A i \in 1..Len(t) : t[i] # "."
  THEN <<t>>
  ELSE LET i == CHOOSE j \in 1..Len(t) :
                  t[j] = "." /\ \A k \in 1..(j - 1) : t[k] # "."
       IN <<SubSeq(t, 1, i - 1)>> \o Split(SubSeq(t, i + 1, Len(t)))

DaysInMonth == <<31, 28, 31, 30, 31, 30, 31, 31, 30, 31, 30, 31>>

RECURSIVE DaysBefore(_)
DaysBefore(month) ==
  IF month = 1 THEN 0 ELSE DaysBefore(month - 1) + DaysInMonth[month - 1]

\* Utc.datetime_from_str(date + "00", "%Y%m%d%H%M") on a first part made of
\* digits and letters: four, two, two and two digits are taken for the year,
\* the month, the day and the hour, and the two zeros appended are the
\* minutes; <<>> is Err
ParseDate(date) ==
  IF Len(date) # 10 \/ ~AllDigits(date) THEN <<>>
  ELSE LET year  == Number(SubSeq(date, 1, 4))
           month == Number(SubSeq(date, 5, 6))
           day   == Number(SubSeq(date, 7, 8))
           hour  == Number(SubSeq(date, 9, 10))
       IN IF \/ year \notin {1970, 1971}
             \/ month \notin 1..12
             \/ day < 1
             \/ hour > 23
          THEN <<>>
          ELSE IF day > DaysInMonth[month] THEN <<>>
          ELSE <<((((year - 1970) * 365 + DaysBefore(month) + day - 1) * 24)
                    + hour) * 60>>

\* str::parse::<u16>: an optional '+', then digits only, at least one
ParseU16(t) ==
  LET digits == IF t # <<>> THEN (IF t[1] = "+" THEN Tail(t) ELSE t) ELSE t
  IN IF digits = <<>> \/ ~AllDigits(digits) THEN <<>>
     ELSE IF Number(digits) > 65535 THEN <<>>
     ELSE <<Number(digits)>>

Ok(stamp) == [kind |-> "Ok", stamp |-> <<stamp>>]

FilenameError == [kind |-> "FilenameError", stamp |-> <<>>]

Panic == [kind |-> "panic", stamp |-> <<>>]

\* TryFrom<&String> for Stamp
try_from(filename) ==
  LET parts == Split(filename)
  IN IF Len(parts) # 2 THEN FilenameError
     ELSE LET ref_time == ParseDate(parts[1])
          IN IF ref_time = <<>> THEN FilenameError
             ELSE IF Len(parts[2]) < 4 THEN Panic
             ELSE LET hour == ParseU16(SubSeq(parts[2], 2, 4))
                  IN IF hour = <<>> THEN FilenameError
                     ELSE Ok(StampFrom(ref_time[1],
                                       ref_time[1] + Hours(hour[1])))

\* ref_time.format("%Y%m%d%H")
FormatDate(t) ==
  LET hours == t \div 60
      days  == hours \div 24
      year  == 1970 + (days \div 365)
      yday  == days % 365
      month == CHOOSE m \in 1..12 :
                 DaysBefore(m) <= yday /\ yday < DaysBefore(m) + DaysInMonth[m]
  IN Padded(Decimal(year), 4) \o Padded(Decimal(month), 2)
       \o Padded(Decimal(yday - DaysBefore(month) + 1), 2)
       \o Padded(Decimal(hours % 24), 2)

\* Stamp::file_name: format!("{}.f{:03}", .., self.forecast_hour())
file_name_text(stamp) ==
  FormatDate(stamp.ref_time) \o <<".", "f">>
    \o Padded(Decimal(forecast_hour(stamp)), 3)

RECURSIVE Texts(_, _)
Texts(chars, n) ==
  IF n = 0 THEN { <<>> }
  ELSE LET shorter == Texts(chars, n - 1)
       IN shorter \cup { t \o <<c>> : t \in shorter, c \in chars }

\* first parts: two cycles, an hour off the cycles, a 31st of April, a date
\* of eight digits and a word
DateTexts ==
  { <<"1", "9", "7", "0", "0", "1", "0", "1", "0", "0">>,
    <<"1", "9", "7", "0", "0", "1", "0", "1", "0", "6">>,
    <<"1", "9", "7", "0", "0", "1", "0", "2", "0", "3">>,
    <<"1", "9", "7", "0", "0", "4", "3", "1", "0", "0">>,
    <<"1", "9", "7", "0", "0", "1", "0", "1">>,
    <<"R", "E", "A", "D">> }

HourChars == { "f", "x", "+", "0", "6", "." }

\* the file names given to try_from, the second part of at most n bytes
FileTexts(n) ==
  { d \o sep \o h : d \in DateTexts, sep \in { <<>>, <<".">> },
                    h \in Texts(HourChars, n) }

\* the stamps given to file_name
TextStamps ==
  { StampFrom(r, from_ref_time(r, h)) :
      r \in { 0, Hours(6), Hours(24) + Hours(18), Hours(24) * 364 + Hours(12) },
      h \in { 0, 6, 99, 100, max_forecast_hour } }

InitText ==
  /\ now = Hours(9) + 30
  /\ gribs = {}
  /\ jsons = {}
  /\ forecasts = <<>>
  /\ last = <<>>
  /\ progress = 0
  /\ status_current_ref_time = current_ref_time(now)
  /\ maxreg = <<>>
  /\ dl = Idle
  /\ rf = [pc |-> "unstarted", stamps |-> <<>>, stamp |-> <<>>, rounds |-> 0,
          dropped |-> {}]
  /\ build = "release"
  /\ query \in { <<[name |-> f, stamp |-> <<>>]>> : f \in FileTexts(MaxHourText) }
                 \cup { <<[name |-> <<>>, stamp |-> <<s>>]>> : s \in TextStamps }
  /\ found = <<>>

\* a file name is parsed
TryFrom ==
  /\ found = <<>>
  /\ query[1].stamp = <<>>
  /\ found' = <<try_from(query[1].name)>>
  /\ UNCHANGED <<now, gribs, jsons, status, dl, rf, build, query>>

\* a stamp is named and its name parsed
FileName ==
  /\ found = <<>>
  /\ query[1].stamp # <<>>
  /\ found' = <<try_from(file_name_text(query[1].stamp[1]))>>
  /\ query' = <<[query[1] EXCEPT !.name = file_name_text(query[1].stamp[1])]>>
  /\ UNCHANGED <<now, gribs, jsons, status, dl, rf, build>>

NextText ==
  \/ TryFrom
  \/ FileName

SpecText == InitText /\ [][NextText]_vars

\* C25: a file name that parsing accepts is the name of the stamp parsed
\* from it, and the name of a stamp with a forecast hour of 0 to
\* max_forecast_hour parses back to its ref_time and forecast_time.
C25_NamesRoundTrip ==
  found # <<>> =>
    /\ (query[1].stamp = <<>> /\ found[1].kind = "Ok")
         => file_name_text(found[1].stamp[1]) = query[1].name
    /\ query[1].stamp # <<>>
         => /\ found[1].kind = "Ok"
            /\ found[1].stamp[1].ref_time = query[1].stamp[1].ref_time
            /\ found[1].stamp[1].forecast_time = query[1].stamp[1].forecast_time

\* the second half of C25 alone
C25_StampsRoundTrip ==
  (found # <<>> /\ query[1].stamp # <<>>)
    => /\ found[1].kind = "Ok"
       /\ found[1].stamp[1].ref_time = query[1].stamp[1].ref_time
       /\ found[1].stamp[1].forecast_time = query[1].stamp[1].forecast_time

\* the shapes of name the parsing is to refuse: not exactly two parts, a
\* second part shorter than fHHH, a date or an hour that is not a number
InvalidShape(filename) ==
  LET parts == Split(filename)
  IN \/ Len(parts) # 2
     \/ Len(parts[Len(parts)]) < 4
     \/ ~AllDigits(parts[1])
     \/ ~AllDigits(SubSeq(parts[Len(parts)], 2, 4))

\* C26: parsing a file name never panics, and a name of invalid shape gives
\* FilenameError.
C26_InvalidShapeIsError ==
  (found # <<>> /\ query[1].stamp = <<>>)
    => /\ found[1].kind # "panic"
       /\ InvalidShape(query[1].name) => found[1].kind = "FilenameError"

\* the second half of C26 without the panic: a name of invalid shape that
\* does not panic gives FilenameError
C26_InvalidShapeNotOk ==
  (found # <<>> /\ query[1].stamp = <<>> /\ InvalidShape(query[1].name))
    => found[1].kind # "Ok"

-----------------------------------------------------------------------------
(* Storage::list over the names of a directory or bucket.  A result is a    *)
(* kind and the set of stamps returned; the Local back-end reads the        *)
(* directory in no particular order, so that with several names that fail   *)
(* any of their failures can be the one met first.                          *)

Parsable(dir) == { f \in dir : ParseResult(f) = "Ok" }

\* Storage::Local: stamps.push((&entry.path()).try_into()?)
list_Local(dir) ==
  IF Parsable(dir) = dir
  THEN { [kind |-> "Ok", stamps |-> { StampFromName(f) : f \in dir }] }
  ELSE { [kind |-> ParseResult(f), stamps |-> {}] : f \in dir \ Parsable(dir) }

\* Storage::ObjectStorage: filter_map over Stamp::try_from(&o.name)
list_ObjectStorage(dir) ==
  IF \E f \in dir : ParseResult(f) = "panic"
  THEN { [kind |-> "panic", stamps |-> {}] }
  ELSE { [kind |-> "Ok", stamps |-> { StampFromName(f) : f \in Parsable(dir) }] }

\* C27: on every back-end list() returns the stamps of the names that parse
\* and leaves the others out, and the listing of refresh never fails because
\* of a name that does not parse.
C27_ListDropsUnparsable ==
  /\ [](\A r \in list_Local(gribs) \cup list_ObjectStorage(gribs) :
          /\ r.kind = "Ok"
          /\ r.stamps = { StampFromName(f) : f \in Parsable(gribs) })
  /\ [][(rf.pc = "list" /\ rf' # rf)
          => /\ rf'.pc = "next"
             /\ rf'.stamps = ListStamps(Parsable(gribs))]_vars

\* C27 for the ObjectStorage back-end and names that fail without a panic
C27_ObjectStorageDrops ==
  (\A f \in gribs : ParseResult(f) # "panic")
    => \A r \in list_ObjectStorage(gribs) :
         /\ r.kind = "Ok"
         /\ r.stamps = { StampFromName(f) : f \in Parsable(gribs) }

-----------------------------------------------------------------------------
(* The write lock of Status, step by step.  The download task runs clean,   *)
(* fetches one stamp and runs on_stamp_downloaded(true, false, ..); the     *)
(* refresh task runs the first block of refresh.  A position ending in      *)
(* .write or .files is inside the scope of a guard returned by write().     *)

LockFiles == { Name(0, 6), Name(0, 9), Name(0, 15), Name(Hours(6), 3) }

LockInstants == { Hours(9) + 30, Hours(12) + 30 }

\* the stamps the download task may fetch: hours 6 and 9 of the 06 h cycle
FetchStamps ==
  { StampFrom(Hours(6), from_ref_time(Hours(6), h)) : h \in { 6, 9 } }

\* the map after add_forecast of each stamp of the list in turn
RECURSIVE Registered(_)
Registered(l) ==
  IF l = <<>> THEN <<>>
  ELSE add_forecast([forecasts |-> Registered(SubSeq(l, 1, Len(l) - 1))],
                    l[Len(l)]).forecasts

InitLock ==
  /\ now \in LockInstants
  /\ gribs \in SUBSET LockFiles
  /\ jsons \in SUBSET gribs
  /\ forecasts = Registered(ListStamps(gribs))
  /\ last = <<>>
  /\ progress = 0
  /\ status_current_ref_time = current_ref_time(now)
  /\ maxreg = <<>>
  /\ dl = [Idle EXCEPT !.pc = "clean", !.ctx = "pass", !.delete = TRUE]
  /\ rf = [pc |-> "retain", stamps |-> <<>>, stamp |-> <<>>, rounds |-> 0,
          dropped |-> {}]
  /\ build = "release"
  /\ query = <<>>
  /\ found = <<>>

\* the download task is inside the scope of a write guard
DlHoldsWrite ==
  dl.pc \in { "clean.write", "clean.files", "remove.write", "remove.files" }

\* the refresh task is inside the scope of a write guard; retain.held is
\* the position of a refresh that goes on to contains_key inside that scope
RfHoldsWrite == rf.pc \in { "retain.write", "retain.done", "retain.held" }

WriteHeld == DlHoldsWrite \/ RfHoldsWrite

\* a reader (api get, find_winds) is inside the scope of a read guard; query
\* holds the position of the reader, <<>> when it has no request pending
ReadHeld == query = <<"reading">>

\* write() is granted when no guard of either kind is out
LockHeld == WriteHeld \/ ReadHeld

\* clean: status.write().await
CleanLock ==
  /\ dl.pc = "clean"
  /\ ~LockHeld
  /\ dl' = [dl EXCEPT !.pc = "clean.write"]
  /\ UNCHANGED <<gribs, jsons, status, rf, env>>

\* clean: drain_filter(..).next(), the DrainFilter dropped at once
CleanDrain ==
  /\ dl.pc = "clean.write"
  /\ LET old == Expired(forecasts, now)
     IN /\ forecasts' = [k \in DOMAIN forecasts \ old |-> forecasts[k]]
        /\ dl' = [dl EXCEPT !.pc = "clean.files",
                            !.stamps = IF old = {} THEN <<>>
                                       ELSE forecasts[MinOf(old)]]
  /\ UNCHANGED <<gribs, jsons, last, progress, status_current_ref_time,
                 maxreg, rf, env>>

\* clean: fs::remove_file and storage.remove(..).await of one stamp
CleanRemoveFile ==
  /\ dl.pc = "clean.files"
  /\ dl.stamps # <<>>
  /\ gribs' = gribs \ { file_name(dl.stamps[1]) }
  /\ jsons' = jsons \ { file_name(dl.stamps[1]) }
  /\ dl' = [dl EXCEPT !.stamps = Tail(@)]
  /\ UNCHANGED <<status, rf, env>>

\* clean returns: the guard goes out of scope
CleanUnlock ==
  /\ dl.pc = "clean.files"
  /\ dl.stamps = <<>>
  /\ dl' = [dl EXCEPT !.pc = "fetch"]
  /\ UNCHANGED <<gribs, jsons, status, rf, env>>

\* download_grib of a stamp whose file is missing: request, conversion, copy
Fetch ==
  /\ dl.pc = "fetch"
  /\ \E s \in FetchStamps :
       /\ file_name(s) \notin gribs
       /\ gribs' = gribs \cup { file_name(s) }
       /\ jsons' = jsons \cup { file_name(s) }
       /\ dl' = [dl EXCEPT !.pc = "check", !.stamp = <<s>>]
  /\ UNCHANGED <<status, rf, env>>

\* on_stamp_downloaded: contains_key under read() and the test on the hour
ContainsKey ==
  /\ dl.pc = "check"
  /\ ~WriteHeld
  /\ dl' = [dl EXCEPT !.pc = IF merge_applies(World, dl.delete, dl.stamp[1])
                             THEN "remove" ELSE "set_last"]
  /\ UNCHANGED <<gribs, jsons, status, rf, env>>

\* remove_forecast: self.write().await
RemoveLock ==
  /\ dl.pc = "remove"
  /\ ~LockHeld
  /\ dl' = [dl EXCEPT !.pc = "remove.write"]
  /\ UNCHANGED <<gribs, jsons, status, rf, env>>

\* remove_forecast: it.forecasts.remove(forecast_time)
RemoveEntry ==
  /\ dl.pc = "remove.write"
  /\ LET ft == dl.stamp[1].forecast_time
     IN /\ forecasts' = [k \in DOMAIN forecasts \ {ft} |-> forecasts[k]]
        /\ dl' = [dl EXCEPT !.pc = "remove.files", !.merged = TRUE,
                            !.stamps = IF ft \in DOMAIN forecasts
                                       THEN forecasts[ft] ELSE <<>>]
  /\ UNCHANGED <<gribs, jsons, last, progress, status_current_ref_time,
                 maxreg, rf, env>>

\* remove_forecast: remove(stamp).await, the closure of on_stamp_downloaded
RemoveFile ==
  /\ dl.pc = "remove.files"
  /\ dl.stamps # <<>>
  /\ gribs' = gribs \ { file_name(dl.stamps[1]) }
  /\ jsons' = jsons \ { file_name(dl.stamps[1]) }
  /\ dl' = [dl EXCEPT !.stamps = Tail(@)]
  /\ UNCHANGED <<status, rf, env>>

\* remove_forecast returns
RemoveUnlock ==
  /\ dl.pc = "remove.files"
  /\ dl.stamps = <<>>
  /\ dl' = [dl EXCEPT !.pc = "set_last"]
  /\ UNCHANGED <<gribs, jsons, status, rf, env>>

\* Status::set_last, the guard held for the two assignments
SetLastLocked ==
  /\ dl.pc = "set_last"
  /\ ~LockHeld
  /\ Apply(set_last(World, dl.stamp[1].ref_time, forecast_hour(dl.stamp[1]),
                    max_forecast_hour))
  /\ dl' = [dl EXCEPT !.pc = "add"]
  /\ UNCHANGED <<rf, env>>

\* Status::add_forecast, the guard held for the push
AddForecastLocked ==
  /\ dl.pc = "add"
  /\ ~LockHeld
  /\ Apply(add_forecast(World, dl.stamp[1]))
  /\ dl' = [dl EXCEPT !.pc = "done"]
  /\ UNCHANGED <<rf, env>>

\* refresh: status.write().await
RetainLock ==
  /\ rf.pc = "retain"
  /\ ~LockHeld
  /\ rf' = [rf EXCEPT !.pc = "retain.write"]
  /\ UNCHANGED <<gribs, jsons, status, dl, env>>

\* refresh: forecasts.retain with exists() on the file of each stamp
RetainEntries ==
  /\ rf.pc = "retain.write"
  /\ Apply(retain(World))
  /\ rf' = [rf EXCEPT !.pc = "retain.done"]
  /\ UNCHANGED <<dl, env>>

\* a refresh whose first block has no scope of its own: the write guard is
\* still out when contains_key asks for read()
RetainKeepsGuard ==
  /\ rf.pc = "retain.done"
  /\ rf' = [rf EXCEPT !.pc = "retain.held"]
  /\ UNCHANGED <<gribs, jsons, status, dl, env>>

\* refresh: the end of the block
RetainUnlock ==
  /\ rf.pc = "retain.done"
  /\ rf' = [rf EXCEPT !.pc = "list"]
  /\ UNCHANGED <<gribs, jsons, status, dl, env>>

NextLock ==
  \/ CleanLock
  \/ CleanDrain
  \/ CleanRemoveFile
  \/ CleanUnlock
  \/ Fetch
  \/ ContainsKey
  \/ RemoveLock
  \/ RemoveEntry
  \/ RemoveFile
  \/ RemoveUnlock
  \/ SetLastLocked
  \/ AddForecastLocked
  \/ RetainLock
  \/ RetainEntries
  \/ RetainUnlock

SpecLock == InitLock /\ [][NextLock]_vars

\* C28: a task performs its network and disk operations with the write lock
\* of Status released: the file removals of clean and of the merge rule, the
\* existence tests of refresh and the download are never steps of a task
\* that holds the write guard.
C28_NoIoUnderWriteLock ==
  [][/\ (CleanRemoveFile \/ RemoveFile \/ Fetch) => ~DlHoldsWrite
     /\ RetainEntries => ~RfHoldsWrite]_vars

\* the part of C28 that holds: the download, and with it the conversion and
\* the copy of the file, runs with the write lock released
C28_FetchOutsideLock == [][Fetch => ~DlHoldsWrite]_vars

\* the write lock is exclusive
C28_OneWriter == ~(DlHoldsWrite /\ RfHoldsWrite)

-----------------------------------------------------------------------------
(* refresh() alone, as in load_grib_test: load(false, true) has registered  *)
(* every file it found, without merge; files have been deleted from outside *)
(* since; then refresh() runs MaxRounds times with no download between.     *)
(* query keeps the map as it was when the first refresh() began.            *)

RefreshFiles ==
  { Name(0, 18), Name(Hours(6), 12), Name(Hours(12), 6), Name(Hours(12), 0) }

\* stamp.wind = Some(json::load(..)) on each stamp of the list
WithWind(l) == [i \in 1..Len(l) |-> [l[i] EXCEPT !.wind = TRUE]]

InitRefresh ==
  /\ now = Hours(9) + 30
  /\ \E loaded \in SUBSET RefreshFiles :
       /\ forecasts = Registered(WithWind(ListStamps(loaded)))
       /\ gribs \in SUBSET loaded
       /\ jsons \in SUBSET loaded
  /\ last = <<>>
  /\ progress = 0
  /\ status_current_ref_time = current_ref_time(now)
  /\ maxreg = <<>>
  /\ dl = Idle
  /\ rf = [pc |-> "retain", stamps |-> <<>>, stamp |-> <<>>, rounds |-> 0,
          dropped |-> {}]
  /\ build = "release"
  /\ query = <<forecasts>>
  /\ found = <<>>

NextRefresh ==
  \/ RfRetain
  \/ RfList
  \/ RfDone
  \/ RfNext
  \/ RfSetLast
  \/ RfJson
  \/ RfAdd

SpecRefresh == InitRefresh /\ [][NextRefresh]_vars

\* the stamp is in the list of its forecast_time
Indexed(fc, stamp) ==
  \E i \in 1..Len(StampsAt(fc, stamp.forecast_time)) :
    fc[stamp.forecast_time][i].ref_time = stamp.ref_time

\* the grib file and the json file of the stamp are there
FilesSurvive(stamp) == file_name(stamp) \in gribs /\ file_name(stamp) \in jsons

\* refresh() has returned once
Refreshed == rf.pc = "retain" /\ rf.rounds = 1

\* C29: when some of the files of an entry have been deleted from outside,
\* the stamps of that entry whose files survive are indexed after refresh().
C29_SurvivorsStayIndexed ==
  Refreshed =>
    \A k \in DOMAIN query[1] :
      (\E i \in 1..Len(query[1][k]) : ~FilesSurvive(query[1][k][i]))
        => \A i \in 1..Len(query[1][k]) :
             FilesSurvive(query[1][k][i]) => Indexed(forecasts, query[1][k][i])

\* what refresh() keeps of such an entry: a stamp of it whose files survive,
\* as soon as there is one
C29_OneSurvivorIndexed ==
  Refreshed =>
    \A k \in DOMAIN query[1] :
      (\E i \in 1..Len(query[1][k]) : FilesSurvive(query[1][k][i]))
        => \E i \in 1..Len(query[1][k]) :
             FilesSurvive(query[1][k][i]) /\ Indexed(forecasts, query[1][k][i])

\* C30: with the stores unchanged and no download, a second refresh() leaves
\* Status.forecasts as the first one left it.
C30_SecondRefreshChangesNothing ==
  [][(rf.rounds = 2 \/ (rf.rounds = 1 /\ rf.pc = "retain"))
       => forecasts' = forecasts]_vars

\* C30 for the stores that hold no file of forecast hour 0
C30_IdempotentWithoutHourZero ==
  [][(/\ rf.rounds = 2 \/ (rf.rounds = 1 /\ rf.pc = "retain")
      /\ \A f \in gribs : forecast_hour(StampFromName(f)) # 0)
       => forecasts' = forecasts]_vars

-----------------------------------------------------------------------------
(* The lists of Status.forecasts under both loops *)

\* no two positions of the list hold the same (ref_time, forecast_time)
NoDuplicate(l) ==
  \A i \in 1..Len(l) : \A j \in 1..Len(l) :
    (i # j) => ~(/\ l[i].ref_time = l[j].ref_time
                 /\ l[i].forecast_time = l[j].forecast_time)

\* C31: under any interleaving of the download loop and the refresh loop no
\* (ref_time, forecast_time) pair appears more than once in a list of
\* Status.forecasts.
C31_NoDuplicateStamp == \A k \in DOMAIN forecasts : NoDuplicate(forecasts[k])

\* C31 for the stamps of a forecast hour other than 0
C31_NoDuplicateAfterHourZero ==
  \A k \in DOMAIN forecasts :
    NoDuplicate(SelectSeq(forecasts[k], LAMBDA x : forecast_hour(x) # 0))

-----------------------------------------------------------------------------
(* The merge rule and the cycles of the stamps it removes *)

\* C32: the merge rule never removes a stamp of a cycle newer than the cycle
\* of the arriving stamp, whatever load, the download_at seeded by init and
\* the download passes have done.
C32_MergeKeepsNewer ==
  [][(dl.pc = "remove" /\ dl'.pc = "set_last")
       => \A i \in 1..Len(StampsAt(forecasts, dl.stamp[1].forecast_time)) :
            forecasts[dl.stamp[1].forecast_time][i].ref_time
              <= dl.stamp[1].ref_time]_vars

-----------------------------------------------------------------------------
(* What a reader holding read() sees between two write guards of            *)
(* on_stamp_downloaded: every state of the download task is one.            *)

\* the merge rule applied to the stamp in hand, the list removed
Merging == dl.merged /\ dl.pc \in { "set_last", "json", "add" }

\* set_last has run for the stamp in hand and last names it
LastIsStampInHand ==
  /\ dl.pc \in { "json", "add" }
  /\ last # <<>>
  /\ last[1].ref_time = dl.stamp[1].ref_time
  /\ last[1].forecast_time = dl.stamp[1].forecast_time

\* a reader never sees the forecast_time of a merge absent
C33_MergeNeverAbsent ==
  Merging => contains_key(forecasts, dl.stamp[1].forecast_time)

\* a reader never sees last name a stamp that is not yet registered
C33_LastAlreadyRegistered == LastIsStampInHand => Indexed(forecasts, last[1])

\* C33: a reader that takes the read lock while on_stamp_downloaded applies
\* the merge rule for a forecast_time sees that forecast_time present, with
\* the old stamps or with the new one, and never sees last name a stamp that
\* is not yet in forecasts.
C33_ReaderSeesWholeUpdate ==
  /\ Merging => contains_key(forecasts, dl.stamp[1].forecast_time)
  /\ LastIsStampInHand => Indexed(forecasts, last[1])

-----------------------------------------------------------------------------
(* The Status lock with readers.  tokio's RwLock queues its requests in     *)
(* order of arrival, so that a request that could be granted again and      *)
(* again is granted: strong fairness on the steps that take a guard.  The   *)
(* steps inside a guard are file and network operations that return, and a  *)
(* panic inside a guard drops it while unwinding: weak fairness on them.    *)

\* api get or find_winds is called: read().await is pending
ReadRequest ==
  /\ query = <<>>
  /\ query' = <<"requested">>
  /\ UNCHANGED <<now, gribs, jsons, status, dl, rf, build, found>>

\* read() is granted
ReadLock ==
  /\ query = <<"requested">>
  /\ ~WriteHeld
  /\ query' = <<"reading">>
  /\ UNCHANGED <<now, gribs, jsons, status, dl, rf, build, found>>

\* the reader returns, or panics on keys[0]: its guard is dropped; found
\* records that a reader has been through
ReadUnlock ==
  /\ query = <<"reading">>
  /\ query' = <<>>
  /\ found' = <<"served">>
  /\ UNCHANGED <<now, gribs, jsons, status, dl, rf, build>>

NextReaders ==
  \/ NextLock
  \/ ReadRequest
  \/ ReadLock
  \/ ReadUnlock

\* the steps that take a guard
Acquisitions ==
  /\ SF_vars(CleanLock)
  /\ SF_vars(ContainsKey)
  /\ SF_vars(RemoveLock)
  /\ SF_vars(SetLastLocked)
  /\ SF_vars(AddForecastLocked)
  /\ SF_vars(RetainLock)
  /\ SF_vars(ReadLock)

\* the steps taken inside a guard, up to its release
InsideGuards ==
  /\ WF_vars(CleanDrain)
  /\ WF_vars(CleanRemoveFile)
  /\ WF_vars(CleanUnlock)
  /\ WF_vars(RemoveEntry)
  /\ WF_vars(RemoveFile)
  /\ WF_vars(RemoveUnlock)
  /\ WF_vars(RetainEntries)
  /\ WF_vars(RetainUnlock)
  /\ WF_vars(ReadUnlock)

SpecReaders == InitLock /\ [][NextReaders]_vars /\ Acquisitions /\ InsideGuards

\* the task asks for the lock in this step
DlRequests ==
  CleanLock \/ ContainsKey \/ RemoveLock \/ SetLastLocked \/ AddForecastLocked

\* C34: with the download task, the refresh task and readers running
\* together, no task asks for the Status lock while it holds a guard on it,
\* every guard taken is released and every request is granted.
C34_NoDeadlock ==
  /\ [][/\ DlRequests => ~DlHoldsWrite
        /\ RetainLock => ~RfHoldsWrite
        /\ ReadLock => ~ReadHeld]_vars
  /\ (DlHoldsWrite ~> ~DlHoldsWrite)
  /\ (RfHoldsWrite ~> ~RfHoldsWrite)
  /\ (ReadHeld ~> ~ReadHeld)
  /\ (dl.pc = "clean" ~> dl.pc = "clean.write")
  /\ (dl.pc = "check" ~> dl.pc \in { "remove", "set_last" })
  /\ (dl.pc = "remove" ~> dl.pc = "remove.write")
  /\ (dl.pc = "set_last" ~> dl.pc = "add")
  /\ (dl.pc = "add" ~> dl.pc = "done")
  /\ (rf.pc = "retain" ~> rf.pc = "retain.write")
  /\ (query = <<"requested">> ~> ReadHeld)

\* two writers wait while a reader holds its guard
C34_WritersWaitForReader ==
  /\ ReadHeld
  /\ dl.pc = "remove"
  /\ rf.pc = "retain"

-----------------------------------------------------------------------------
(* find_winds on an empty Status *)

\* C35: the lookup on a Status with no forecasts returns an error value to
\* the caller and does not panic.
C35_EmptyStatusIsError ==
  (found # <<>> /\ DOMAIN forecasts = {}) => found[1].tag = "Err"

-----------------------------------------------------------------------------
(* grib::from_reader.  A byte stream is the sequence of its messages; of a  *)
(* message the model keeps whether section 0 begins with "GRIB", the        *)
(* edition octet, and whether the sections after section 0 are all there    *)
(* ("whole"), stop before total_length is consumed ("truncated"), or are    *)
(* well formed without one of the sections a Message needs ("missing").     *)

GribMessages ==
  [magic : BOOLEAN, edition : { 1, 2, 3 }, body : { "whole", "truncated", "missing" }]

RECURSIVE Streams(_)
Streams(n) ==
  IF n = 0 THEN { <<>> }
  ELSE LET shorter == Streams(n - 1)
       IN shorter \cup { Append(t, m) : t \in shorter, m \in GribMessages }

\* GribReader::read_sect0 on the 16 octets of a message
read_sect0(m) ==
  IF ~m.magic THEN "NotGRIB"
  ELSE IF m.edition # 2 THEN "GRIBVersionMismatch"
  ELSE "Ok"

\* from_reader: `while let Ok(..) = reader.read_sect0()` leaves the loop on
\* the end of the stream and on any error of read_sect0; read_section and
\* the missing sections return their error with `?`
RECURSIVE from_reader(_, _)
from_reader(stream, messages) ==
  IF stream = <<>> THEN [tag |-> "Ok", messages |-> messages]
  ELSE IF read_sect0(Head(stream)) # "Ok"
       THEN [tag |-> "Ok", messages |-> messages]
  ELSE IF Head(stream).body = "truncated"
       THEN [tag |-> "IoError", messages |-> <<>>]
  ELSE IF Head(stream).body = "missing"
       THEN [tag |-> "DecodeError", messages |-> <<>>]
  ELSE from_reader(Tail(stream), Append(messages, Head(stream)))

InitGrib ==
  /\ now = Hours(9) + 30
  /\ gribs = {}
  /\ jsons = {}
  /\ forecasts = <<>>
  /\ last = <<>>
  /\ progress = 0
  /\ status_current_ref_time = current_ref_time(now)
  /\ maxreg = <<>>
  /\ dl = Idle
  /\ rf = [pc |-> "unstarted", stamps |-> <<>>, stamp |-> <<>>, rounds |-> 0,
          dropped |-> {}]
  /\ build = "release"
  /\ query \in { <<t>> : t \in Streams(MaxMessages) }
  /\ found = <<>>

FromReader ==
  /\ found = <<>>
  /\ found' = <<from_reader(query[1], <<>>)>>
  /\ UNCHANGED <<now, gribs, jsons, status, dl, rf, build, query>>

NextGrib == FromReader

SpecGrib == InitGrib /\ [][NextGrib]_vars

\* the message is read whole by from_reader
WellFormed(m) == m.magic /\ m.edition = 2 /\ m.body = "whole"

\* the first message of the stream that is not well formed is one whose
\* section 0 carries the magic and an edition other than 2
EditionMismatchFirst(stream) ==
  \E i \in 1..Len(stream) :
    /\ stream[i].magic /\ stream[i].edition # 2
    /\ \A j \in 1..(i - 1) : WellFormed(stream[j])

\* C36: from_reader on a byte stream with a message whose section 0 carries
\* an edition other than 2 returns the error GRIBVersionMismatch.
C36_EditionMismatchReturned ==
  (found # <<>> /\ EditionMismatchFirst(query[1]))
    => found[1].tag = "GRIBVersionMismatch"

\* what from_reader returns in that case: Ok with the messages read before
C36_EditionMismatchEndsStream ==
  (found # <<>> /\ EditionMismatchFirst(query[1]))
    => /\ found[1].tag = "Ok"
       /\ \A i \in 1..Len(found[1].messages) : found[1].messages[i].edition = 2

-----------------------------------------------------------------------------
(* grib::utils::BitwiseIterator and the simple-packing decoder.  A slice is *)
(* a sequence of octets, 0..255; pos counts octets from 0 and offset bits   *)
(* from the most significant one, as in the code.  Values stay far below    *)
(* the width of T.                                                          *)

RECURSIVE Pow2(_)
Pow2(n) == IF n = 0 THEN 1 ELSE 2 * Pow2(n - 1)

\* the octets slice[from] .. slice[to - 1] appended to val, 8 bits each
RECURSIVE ShiftIn(_, _, _, _)
ShiftIn(val, slice, from, to) ==
  IF from >= to THEN val
  ELSE ShiftIn(val * 256 + slice[from + 1], slice, from + 1, to)

None == [some |-> FALSE, val |-> 0, pos |-> 0, offset |-> 0]

\* BitwiseIterator::next with self = (slice, size, pos, offset)
BitwiseNext(slice, size, pos, offset) ==
  LET new_pos    == pos + ((offset + size) \div 8)
      new_offset == (offset + size) % 8
  IN IF \/ pos >= Len(slice)
        \/ new_pos > Len(slice)
        \/ (new_pos = Len(slice) /\ new_offset > 0)
     THEN None
     ELSE LET first == slice[pos + 1] % Pow2(8 - offset)
              val == IF new_pos = pos
                     THEN first \div Pow2(8 - new_offset)
                     ELSE LET whole == ShiftIn(first, slice, pos + 1, new_pos)
                          IN IF new_offset > 0
                             THEN whole * Pow2(new_offset)
                                    + (slice[new_pos + 1] \div Pow2(8 - new_offset))
                             ELSE whole
          IN [some |-> TRUE, val |-> val, pos |-> new_pos, offset |-> new_offset]

\* .take(limit).collect() from the position (pos, offset)
RECURSIVE BitwiseTake(_, _, _, _, _)
BitwiseTake(slice, size, pos, offset, limit) ==
  IF limit = 0 THEN <<>>
  ELSE LET n == BitwiseNext(slice, size, pos, offset)
       IN IF ~n.some THEN <<>>
          ELSE <<n.val>> \o BitwiseTake(slice, size, n.pos, n.offset, limit - 1)

\* .collect() of an iterator of size > 0: it ends with the slice
BitwiseCollect(slice, size) == BitwiseTake(slice, size, 0, 0, 8 * Len(slice) + 1)

\* ceil(num_bits * num_points / 8)
OctetLength(num_bits, num_points) == (num_bits * num_points + 7) \div 8

\* GridPointDataSimplePackingDecoder::decode with both scale factors 0: a
\* value is the reference plus the integer read
simple_decode(num_bits, num_points, reference_value, slice) ==
  IF num_bits = 0
  THEN [tag |-> "Ok", values |-> [i \in 1..num_points |-> reference_value]]
  ELSE LET decoded == BitwiseCollect(slice, num_bits)
       IN IF Len(decoded) # num_points
          THEN [tag |-> "Length Mismatch", values |-> <<>>]
          ELSE [tag |-> "Ok",
                values |-> [i \in 1..Len(decoded) |-> reference_value + decoded[i]]]

Octets == { 0, 165, 255 }

RECURSIVE Slices(_)
Slices(n) ==
  IF n = 0 THEN { <<>> }
  ELSE LET shorter == Slices(n - 1)
       IN shorter \cup { Append(t, o) : t \in shorter, o \in Octets }

InitSimple ==
  /\ now = Hours(9) + 30
  /\ gribs = {}
  /\ jsons = {}
  /\ forecasts = <<>>
  /\ last = <<>>
  /\ progress = 0
  /\ status_current_ref_time = current_ref_time(now)
  /\ maxreg = <<>>
  /\ dl = Idle
  /\ rf = [pc |-> "unstarted", stamps |-> <<>>, stamp |-> <<>>, rounds |-> 0,
          dropped |-> {}]
  /\ build = "release"
  /\ query \in { <<[num_bits |-> w, num_points |-> n, slice |-> t]>> :
                   w \in 0..MaxBits, n \in 0..MaxPoints, t \in Slices(MaxOctets) }
  /\ found = <<>>

SimpleDecode ==
  /\ found = <<>>
  /\ found' = <<simple_decode(query[1].num_bits, query[1].num_points, 1,
                              query[1].slice)>>
  /\ UNCHANGED <<now, gribs, jsons, status, dl, rf, build, query>>

NextSimple == SimpleDecode

SpecSimple == InitSimple /\ [][NextSimple]_vars

\* the w-bit values that fit whole into the slice
Fitting(num_bits, slice) == (8 * Len(slice)) \div num_bits

\* C37: with num_bits > 0, decoding a payload of ceil(num_bits * num_points
\* / 8) octets gives exactly num_points values, and a payload from which
\* another number of values comes out fails with Length Mismatch.
C37_SizedPayloadDecodes ==
  (found # <<>> /\ query[1].num_bits > 0) =>
    /\ Len(query[1].slice) = OctetLength(query[1].num_bits, query[1].num_points)
         => /\ found[1].tag = "Ok"
            /\ Len(found[1].values) = query[1].num_points
    /\ Fitting(query[1].num_bits, query[1].slice) # query[1].num_points
         => found[1].tag = "Length Mismatch"

\* what the decoder does: it takes every value that fits into the payload,
\* padding included, and succeeds exactly when that number is num_points
C37_DecodesWhenAllFit ==
  (found # <<>> /\ query[1].num_bits > 0) =>
    IF Fitting(query[1].num_bits, query[1].slice) = query[1].num_points
    THEN found[1].tag = "Ok" /\ Len(found[1].values) = query[1].num_points
    ELSE found[1].tag = "Length Mismatch"

-----------------------------------------------------------------------------
(* Complex packing: groups::decode and ComplexPackingDecoderIterator.  The  *)
(* payloads are section 7 contents written as the GRIB2 regulations say:    *)
(* the group references, the group widths and the scaled group lengths,     *)
(* each block ending on an octet, then the values of all groups packed      *)
(* without gaps.                                                            *)

\* the fields of Data2 and GroupDefinition read by the decoder
Template(num_groups, lengths_last) ==
  [num_groups |-> num_groups, num_bits |-> 3,
   group_widths_reference |-> 0, group_widths_num_bits |-> 4,
   group_lengths_reference |-> 1, group_lengths_increment |-> 1,
   group_lengths_last |-> lengths_last, group_scaled_lengths_num_bits |-> 2]

\* v on w bits, most significant first
Bits(v, w) == [i \in 1..w |-> (v \div Pow2(w - i)) % 2]

RECURSIVE Concat(_)
Concat(ss) == IF ss = <<>> THEN <<>> ELSE Head(ss) \o Concat(Tail(ss))

\* bits to octets, the last octet padded with zero bits
Pack(bits) ==
  LET b(k) == IF k <= Len(bits) THEN bits[k] ELSE 0
  IN [o \in 1..((Len(bits) + 7) \div 8) |->
        128 * b(8 * o - 7) + 64 * b(8 * o - 6) + 32 * b(8 * o - 5)
          + 16 * b(8 * o - 4) + 8 * b(8 * o - 3) + 4 * b(8 * o - 2)
          + 2 * b(8 * o - 1) + b(8 * o)]

\* section 7 of a field made of the given groups [ref, width, values]
Section7(groups) ==
  LET d == Template(Len(groups), Len(groups[Len(groups)].values))
      n == Len(groups)
      scaled(i) == IF i = n THEN 0
                   ELSE (Len(groups[i].values) - d.group_lengths_reference)
                          \div d.group_lengths_increment
  IN Pack(Concat([i \in 1..n |-> Bits(groups[i].ref, d.num_bits)]))
       \o Pack(Concat([i \in 1..n |->
                 Bits(groups[i].width - d.group_widths_reference,
                      d.group_widths_num_bits)]))
       \o Pack(Concat([i \in 1..n |->
                 Bits(scaled(i), d.group_scaled_lengths_num_bits)]))
       \o Pack(Concat([i \in 1..n |->
                 Concat([k \in 1..Len(groups[i].values) |->
                           Bits(groups[i].values[k], groups[i].width)])]))

\* groups::decode: the three blocks read and zipped by GroupsIterator; the
\* slicing panics on a slice shorter than the three blocks
groups_decode(d, slice) ==
  LET references_end == OctetLength(d.num_bits, d.num_groups)
      widths_end == references_end
                      + OctetLength(d.group_widths_num_bits, d.num_groups)
      lengths_end == widths_end
                      + OctetLength(d.group_scaled_lengths_num_bits, d.num_groups)
      references == BitwiseTake(SubSeq(slice, 1, references_end),
                                d.num_bits, 0, 0, d.num_groups)
      read_widths == BitwiseTake(SubSeq(slice, references_end + 1, widths_end),
                                 d.group_widths_num_bits, 0, 0, d.num_groups)
      read_lengths == BitwiseTake(SubSeq(slice, widths_end + 1, lengths_end),
                                  d.group_scaled_lengths_num_bits, 0, 0,
                                  d.num_groups - 1)
      lengths == [i \in 1..Len(read_lengths) |->
                    d.group_lengths_reference
                      + d.group_lengths_increment * read_lengths[i]]
                   \o <<d.group_lengths_last>>
      zipped == MinOf({Len(references), Len(read_widths), Len(lengths)})
  IN IF lengths_end > Len(slice)
     THEN [tag |-> "Panic", groups |-> <<>>, end |-> 0]
     ELSE [tag |-> "Ok",
           groups |-> [i \in 1..zipped |->
                         [ref |-> references[i],
                          width |-> d.group_widths_reference + read_widths[i],
                          length |-> lengths[i]]],
           end |-> lengths_end]

\* ComplexPackingDecoderIterator::next for the groups i.. with self = (slice,
\* pos, start_offset_num_bits), flattened; as_grib_int is the identity below
\* 2^63
RECURSIVE ComplexValues(_, _, _, _, _)
ComplexValues(slice, groups, i, pos, start_offset_num_bits) ==
  IF i > Len(groups) THEN [tag |-> "Ok", values |-> <<>>]
  ELSE LET g == groups[i]
           total_num_bits == g.width * g.length + start_offset_num_bits
           pos_end == pos + (total_num_bits \div 8)
           offset_num_bits == total_num_bits % 8
           offset_byte == IF offset_num_bits > 0 THEN 1 ELSE 0
       IN IF pos_end + offset_byte > Len(slice)
          THEN [tag |-> "Panic", values |-> <<>>]
          ELSE LET read == BitwiseTake(SubSeq(slice, pos + 1, pos_end + offset_byte),
                                       g.width, 0, start_offset_num_bits, g.length)
                   rest == ComplexValues(slice, groups, i + 1, pos_end,
                                         offset_num_bits)
               IN IF rest.tag # "Ok" THEN rest
                  ELSE [tag |-> "Ok",
                        values |-> [k \in 1..Len(read) |-> g.ref + read[k]]
                                     \o rest.values]

\* GridPointDataComplexPackingDecoder::decode with reference value 0 and
\* both scale factors 0
complex_decode(d, slice) ==
  LET gs == groups_decode(d, slice)
  IN IF gs.tag # "Ok" THEN [tag |-> "Panic", values |-> <<>>]
     ELSE ComplexValues(SubSeq(slice, gs.end + 1, Len(slice)), gs.groups, 1, 0, 0)

GroupWidths == { 0, 3, 5 }

RECURSIVE GroupValues(_, _)
GroupValues(width, n) ==
  IF n = 0 THEN { <<>> }
  ELSE LET shorter == GroupValues(width, n - 1)
           digits == IF width = 0 THEN { 0 }
                     ELSE { 0, Pow2(width - 1) + 1, Pow2(width) - 1 }
       IN shorter \cup { Append(t, v) : t \in { u \in shorter : Len(u) = n - 1 },
                                        v \in digits }

Groups(n) ==
  { [ref |-> r, width |-> w, values |-> vs] :
      r \in { 0, 5 },
      w \in GroupWidths,
      vs \in UNION { GroupValues(x, n) : x \in GroupWidths } }

\* the fields of at most n groups: every group but the last has a value, a
\* group of width w holds values of w bits
RECURSIVE Fields(_, _)
Fields(n, len) ==
  LET one == { g \in Groups(len) :
                 \A k \in 1..Len(g.values) : g.values[k] < Pow2(g.width) }
  IN IF n = 1 THEN { <<g>> : g \in one }
     ELSE LET shorter == Fields(n - 1, len)
          IN shorter \cup { <<g>> \o f : g \in { h \in one : h.values # <<>> },
                                         f \in { e \in shorter : Len(e) = n - 1 } }

InitComplex ==
  /\ now = Hours(9) + 30
  /\ gribs = {}
  /\ jsons = {}
  /\ forecasts = <<>>
  /\ last = <<>>
  /\ progress = 0
  /\ status_current_ref_time = current_ref_time(now)
  /\ maxreg = <<>>
  /\ dl = Idle
  /\ rf = [pc |-> "unstarted", stamps |-> <<>>, stamp |-> <<>>, rounds |-> 0,
          dropped |-> {}]
  /\ build = "release"
  /\ query \in { <<[groups |-> f,
                    def |-> Template(Len(f), Len(f[Len(f)].values)),
                    slice |-> Section7(f)]>> : f \in Fields(MaxGroups, MaxGroupLength) }
  /\ found = <<>>

ComplexDecode ==
  /\ found = <<>>
  /\ found' = <<complex_decode(query[1].def, query[1].slice)>>
  /\ UNCHANGED <<now, gribs, jsons, status, dl, rf, build, query>>

NextComplex == ComplexDecode

SpecComplex == InitComplex /\ [][NextComplex]_vars

\* for each group in order, the reference plus each of its values
Expected(groups) ==
  Concat([i \in 1..Len(groups) |->
            [k \in 1..Len(groups[i].values) |->
               groups[i].ref + groups[i].values[k]]])

RECURSIVE SumLengths(_)
SumLengths(groups) ==
  IF groups = <<>> THEN 0
  ELSE Len(Head(groups).values) + SumLengths(Tail(groups))

\* the bits of the values of the groups before group i
RECURSIVE BitsBefore(_, _)
BitsBefore(groups, i) ==
  IF i = 1 THEN 0
  ELSE BitsBefore(groups, i - 1)
         + groups[i - 1].width * Len(groups[i - 1].values)

\* a group of width 0 that starts on an octet boundary
AlignedEmpty(groups, i) ==
  /\ groups[i].width = 0
  /\ BitsBefore(groups, i) % 8 = 0

\* C38: the decoder emits, for each group in order, `length` integers each
\* equal to the group reference plus the value read, so the output has the
\* sum of the group lengths as its length, whatever the width of a group
\* (0 included) and whatever bit offset the group starts at.
C38_EveryGroupEmitted ==
  found # <<>> =>
    /\ found[1].tag = "Ok"
    /\ found[1].values = Expected(query[1].groups)
    /\ Len(found[1].values) = SumLengths(query[1].groups)

\* what the decoder does: a group of width 0 that starts on an octet
\* boundary emits nothing, every other group emits its `length` values
C38_AlignedEmptyGroupsDropped ==
  found # <<>> =>
    /\ found[1].tag = "Ok"
    /\ found[1].values =
         Concat([i \in 1..Len(query[1].groups) |->
                   IF AlignedEmpty(query[1].groups, i) THEN <<>>
                   ELSE [k \in 1..Len(query[1].groups[i].values) |->
                           query[1].groups[i].ref + query[1].groups[i].values[k]]])

\* groups of positive width are decoded at every bit offset
C38_PositiveWidthsDecoded ==
  (found # <<>> /\ \A i \in 1..Len(query[1].groups) : query[1].groups[i].width > 0)
    => found[1] = [tag |-> "Ok", values |-> Expected(query[1].groups)]

-----------------------------------------------------------------------------
(* providers::build_grid.  The function returns a plain grid, not a Result: *)
(* its outcomes are a grid or a panic on an index out of bounds.            *)

\* build_grid: row j takes data[j * nb_lon .. (j + 1) * nb_lon], then its
\* own first value once more
build_grid(data, nb_lat, nb_lon) ==
  IF nb_lat > 0 /\ (nb_lat * nb_lon > Len(data) \/ nb_lon = 0)
  THEN [tag |-> "Panic", grid |-> <<>>]
  ELSE [tag |-> "Ok",
        grid |-> [j \in 1..nb_lat |->
                    LET raw == [i \in 1..nb_lon |-> data[(j - 1) * nb_lon + i]]
                    IN Append(raw, raw[1])]]

RECURSIVE Datas(_)
Datas(n) ==
  IF n = 0 THEN { <<>> }
  ELSE LET shorter == Datas(n - 1)
       IN shorter \cup { Append(t, v) : t \in { u \in shorter : Len(u) = n - 1 },
                                        v \in { 7, 9 } }

InitGrid ==
  /\ now = Hours(9) + 30
  /\ gribs = {}
  /\ jsons = {}
  /\ forecasts = <<>>
  /\ last = <<>>
  /\ progress = 0
  /\ status_current_ref_time = current_ref_time(now)
  /\ maxreg = <<>>
  /\ dl = Idle
  /\ rf = [pc |-> "unstarted", stamps |-> <<>>, stamp |-> <<>>, rounds |-> 0,
          dropped |-> {}]
  /\ build = "release"
  /\ query \in { <<[data |-> d, nb_lat |-> j, nb_lon |-> i]>> :
                   d \in Datas(MaxData), j \in 0..MaxLat, i \in 0..MaxLon }
  /\ found = <<>>

BuildGrid ==
  /\ found = <<>>
  /\ found' = <<build_grid(query[1].data, query[1].nb_lat, query[1].nb_lon)>>
  /\ UNCHANGED <<now, gribs, jsons, status, dl, rf, build, query>>

NextGrid == BuildGrid

SpecGrid == InitGrid /\ [][NextGrid]_vars

\* nb_lat rows of nb_lon + 1 values, the last equal to the first
Wrapped(grid, nb_lat, nb_lon) ==
  /\ Len(grid) = nb_lat
  /\ \A j \in 1..nb_lat : /\ Len(grid[j]) = nb_lon + 1
                          /\ grid[j][nb_lon + 1] = grid[j][1]

\* C39: build_grid returns nb_lat rows of nb_lon + 1 values, the last equal
\* to the first, when the data holds nb_lat * nb_lon values, and rejects
\* every other length with an error: no panic, no truncated grid.
C39_GridOrError ==
  found # <<>> =>
    IF Len(query[1].data) = query[1].nb_lat * query[1].nb_lon
    THEN /\ found[1].tag = "Ok"
         /\ Wrapped(found[1].grid, query[1].nb_lat, query[1].nb_lon)
    ELSE found[1].tag = "Err"

\* what build_grid does: with rows of at least one column it returns the
\* wrapped grid of the first nb_lat * nb_lon values whenever the data holds
\* that many or more, and panics on shorter data
C39_TruncatesOrPanics ==
  (found # <<>> /\ query[1].nb_lon > 0) =>
    IF Len(query[1].data) >= query[1].nb_lat * query[1].nb_lon
    THEN /\ found[1].tag = "Ok"
         /\ Wrapped(found[1].grid, query[1].nb_lat, query[1].nb_lon)
    ELSE found[1].tag = "Panic"

====
